---- MODULE Spec2Model ----
(***************************************************************************)
(* Model of the intraday swing analyzer (src/intraday_swing_analyzer.py):  *)
(* the window statistics engine (compute_intraday_stats and                *)
(* _compute_window_stats), the result cache (process_ticker, load_cache,   *)
(* save_cache) and the batch orchestrator (main).                          *)
(*                                                                         *)
(* Floating point values are modelled as extended rationals: a finite      *)
(* value n/d in lowest terms, +Inf, -Inf or NaN, with the IEEE rules numpy *)
(* and pandas apply to the non-finite ones.  A standard deviation is       *)
(* carried by its square (the variance), and a quotient by a standard      *)
(* deviation by its signed square, so that zero tests, signs, order        *)
(* comparisons and finiteness are exactly those of the code's values.      *)
(***************************************************************************)
EXTENDS Integers, Sequences, FiniteSets, TLC

(***************************************************************************)
(* Extended rationals                                                      *)
(***************************************************************************)
RECURSIVE Gcd(_, _)
Gcd(a, b) == IF b = 0 THEN a ELSE Gcd(b, a % b)

Abs(i) == IF i < 0 THEN -i ELSE i

Sign(i) == IF i < 0 THEN -1 ELSE IF i = 0 THEN 0 ELSE 1

NaN == [k |-> "nan", n |-> 0, d |-> 1]

PInf == [k |-> "inf", n |-> 1, d |-> 1]

NInf == [k |-> "inf", n |-> -1, d |-> 1]

\* the finite value n/d (d # 0), in lowest terms with a positive denominator
Rat(n, d) ==
    LET nn == IF d < 0 THEN -n ELSE n
        dd == Abs(d)
        g  == Gcd(Abs(nn), dd)
    IN  [k |-> "fin", n |-> nn \div g, d |-> dd \div g]

Fin(i) == [k |-> "fin", n |-> i, d |-> 1]

Zero == Fin(0)

IsNan(x) == x.k = "nan"

IsInf(x) == x.k = "inf"

IsFinite(x) == x.k = "fin"

InfOf(s) == IF s < 0 THEN NInf ELSE PInf

FNeg(x) == IF x.k = "nan" THEN NaN ELSE [x EXCEPT !.n = -x.n]

FAdd(x, y) ==
    IF IsNan(x) \/ IsNan(y) THEN NaN
    ELSE IF IsInf(x) /\ IsInf(y) THEN (IF x.n = y.n THEN x ELSE NaN)
    ELSE IF IsInf(x) THEN x
    ELSE IF IsInf(y) THEN y
    ELSE Rat(x.n * y.d + y.n * x.d, x.d * y.d)

FSub(x, y) == FAdd(x, FNeg(y))

FMul(x, y) ==
    IF IsNan(x) \/ IsNan(y) THEN NaN
    ELSE IF IsInf(x) \/ IsInf(y)
         THEN (IF x.n = 0 \/ y.n = 0 THEN NaN ELSE InfOf(Sign(x.n) * Sign(y.n)))
    ELSE Rat(x.n * y.n, x.d * y.d)

\* float division as numpy does it: x/0 is +-Inf, 0/0 is NaN, nothing raises
FDiv(x, y) ==
    IF IsNan(x) \/ IsNan(y) THEN NaN
    ELSE IF IsInf(x) /\ IsInf(y) THEN NaN
    ELSE IF IsInf(x) THEN InfOf(x.n * (IF y.n < 0 THEN -1 ELSE 1))
    ELSE IF IsInf(y) THEN Zero
    ELSE IF y.n = 0 THEN (IF x.n = 0 THEN NaN ELSE InfOf(x.n))
    ELSE Rat(x.n * y.d, x.d * y.n)

\* x > y as a float comparison: FALSE as soon as one side is NaN
FGt(x, y) ==
    IF IsNan(x) \/ IsNan(y) THEN FALSE
    ELSE IF IsInf(x) THEN (x.n > 0 /\ ~(IsInf(y) /\ y.n > 0))
    ELSE IF IsInf(y) THEN y.n < 0
    ELSE x.n * y.d > y.n * x.d

FLe(x, y) == ~IsNan(x) /\ ~IsNan(y) /\ ~FGt(x, y)

FAbs(x) == IF x.k = "nan" THEN NaN ELSE [x EXCEPT !.n = Abs(x.n)]

\* the sum of xs[lo..hi], by halves
RECURSIVE SumRange(_, _, _)
SumRange(xs, lo, hi) ==
    IF lo > hi THEN Zero
    ELSE IF lo = hi THEN xs[lo]
    ELSE LET mid == (lo + hi) \div 2
         IN  FAdd(SumRange(xs, lo, mid), SumRange(xs, mid + 1, hi))

FSum(xs) == SumRange(xs, 1, Len(xs))

\* np.mean
FMean(xs) == FDiv(FSum(xs), Fin(Len(xs)))

\* the square of np.std(xs, ddof=1): sum((x - mean)^2) / (n - 1)
FVar(xs) ==
    LET m  == FMean(xs)
        sq == [i \in 1..Len(xs) |-> FMul(FSub(xs[i], m), FSub(xs[i], m))]
    IN  FDiv(FSum(sq), Fin(Len(xs) - 1))

\* np.max / np.min of a non-empty array without NaN
RECURSIVE FMax(_)
FMax(xs) ==
    IF Len(xs) = 1 THEN xs[1]
    ELSE LET r == FMax(Tail(xs)) IN IF FGt(xs[1], r) THEN xs[1] ELSE r

RECURSIVE FMin(_)
FMin(xs) ==
    IF Len(xs) = 1 THEN xs[1]
    ELSE LET r == FMin(Tail(xs)) IN IF FGt(r, xs[1]) THEN xs[1] ELSE r

RECURSIVE Insert(_, _)
Insert(x, s) ==
    IF s = <<>> THEN <<x>>
    ELSE IF FGt(x, Head(s)) THEN <<Head(s)>> \o Insert(x, Tail(s))
    ELSE <<x>> \o s

RECURSIVE SortAsc(_)
SortAsc(xs) == IF xs = <<>> THEN <<>> ELSE Insert(Head(xs), SortAsc(Tail(xs)))

\* np.median: the middle value, or the mean of the two middle values
FMedian(xs) ==
    LET s == SortAsc(xs)
        n == Len(xs)
    IN  IF n % 2 = 1 THEN s[(n + 1) \div 2]
        ELSE FDiv(FAdd(s[n \div 2], s[n \div 2 + 1]), Fin(2))

\* numpy's _lerp(a, b, t): a + (b - a) * t, and b - (b - a) * (1 - t) where
\* t >= 0.5 (the same value for finite a and b, not for infinite ones)
Lerp(a, b, t) ==
    IF 2 * t.n >= t.d
    THEN FSub(b, FMul(FSub(b, a), FSub(Fin(1), t)))
    ELSE FAdd(a, FMul(FSub(b, a), t))

\* np.percentile(xs, q): linear interpolation between the neighbours of the
\* virtual index (n - 1) * q / 100 of the sorted values
Percentile(xs, q) ==
    LET s    == SortAsc(xs)
        n    == Len(xs)
        pos  == (n - 1) * q
        lo   == pos \div 100
        hi   == IF lo + 1 > n - 1 THEN n - 1 ELSE lo + 1
    IN  Lerp(s[lo + 1], s[hi + 1], Rat(pos % 100, 100))

\* s.iloc[-w:]
TailN(s, w) == IF Len(s) <= w THEN s ELSE SubSeq(s, Len(s) - w + 1, Len(s))

\* np.sum(ranges > threshold)
CountGt(xs, th) == Cardinality({i \in 1..Len(xs) : FGt(xs[i], th)})

(***************************************************************************)
(* Configuration (src/intraday_swing_analyzer.py:30-34)                    *)
(***************************************************************************)
MIN_DAYS_REQUIRED == 5

SWING_THRESHOLD_2 == 2

SWING_THRESHOLD_3 == 3

CACHE_EXPIRY_HOURS == 1

\* Python's None; every value the model passes around is a record with a
\* kind field k
None == [k |-> "none"]

IsNone(x) == x.k = "none"

(***************************************************************************)
(* Price bars.  A bar is [day, Open, High, Low, Close]; consecutive bars   *)
(* of one day are 5 minutes apart, bars of different days 1440 minutes per *)
(* day apart.                                                              *)
(***************************************************************************)
BarGapMinutes(b1, b2) == IF b1.day = b2.day THEN 5 ELSE 1440 * (b2.day - b1.day)

RECURSIVE InsertInt(_, _)
InsertInt(x, s) ==
    IF s = <<>> THEN <<x>>
    ELSE IF x > Head(s) THEN <<Head(s)>> \o InsertInt(x, Tail(s))
    ELSE <<x>> \o s

RECURSIVE SortInt(_)
SortInt(xs) == IF xs = <<>> THEN <<>> ELSE InsertInt(Head(xs), SortInt(Tail(xs)))

\* data.index.to_series().diff().median() < 60 minutes, on twice the median
\* (the median of an even number of gaps is the mean of the middle two; with
\* no gap at all it is NaT and the comparison is False)
LooksIntraday(bars) ==
    LET n    == Len(bars) - 1
        gaps == SortInt([i \in 1..n |-> BarGapMinutes(bars[i], bars[i + 1])])
        med2 == IF n % 2 = 1 THEN 2 * gaps[(n + 1) \div 2]
                ELSE gaps[n \div 2] + gaps[n \div 2 + 1]
    IN  n >= 1 /\ med2 < 2 * 60

RECURSIVE FirstValid(_)
FirstValid(xs) ==
    IF xs = <<>> THEN NaN
    ELSE IF IsNan(Head(xs)) THEN FirstValid(Tail(xs)) ELSE Head(xs)

RECURSIVE LastValid(_)
LastValid(xs) ==
    IF xs = <<>> THEN NaN
    ELSE IF IsNan(xs[Len(xs)]) THEN LastValid(SubSeq(xs, 1, Len(xs) - 1))
    ELSE xs[Len(xs)]

RECURSIVE DropNaN(_)
DropNaN(xs) ==
    IF xs = <<>> THEN <<>>
    ELSE IF IsNan(Head(xs)) THEN DropNaN(Tail(xs))
    ELSE <<Head(xs)>> \o DropNaN(Tail(xs))

MaxValid(xs) == IF DropNaN(xs) = <<>> THEN NaN ELSE FMax(DropNaN(xs))

MinValid(xs) == IF DropNaN(xs) = <<>> THEN NaN ELSE FMin(DropNaN(xs))

RECURSIVE BarsOfDay(_, _)
BarsOfDay(bars, d) ==
    IF bars = <<>> THEN <<>>
    ELSE IF Head(bars).day = d THEN <<Head(bars)>> \o BarsOfDay(Tail(bars), d)
    ELSE BarsOfDay(Tail(bars), d)

Column(bars, f) == [i \in 1..Len(bars) |-> bars[i][f]]

\* one row of data.resample('B').agg({Open: first, High: max, Low: min,
\* Close: last}); every aggregate skips NaN and is NaN for a day without value
ResampleDay(bars, d) ==
    LET bs == BarsOfDay(bars, d)
    IN  [day   |-> d,
         Open  |-> FirstValid(Column(bs, "Open")),
         High  |-> MaxValid(Column(bs, "High")),
         Low   |-> MinValid(Column(bs, "Low")),
         Close |-> LastValid(Column(bs, "Close"))]

RowHasNaN(r) == IsNan(r.Open) \/ IsNan(r.High) \/ IsNan(r.Low) \/ IsNan(r.Close)

RECURSIVE ResampleFrom(_, _, _)
ResampleFrom(bars, d, last) ==
    IF d > last THEN <<>>
    ELSE LET r == ResampleDay(bars, d)
         IN  (IF RowHasNaN(r) THEN <<>> ELSE <<r>>) \o ResampleFrom(bars, d + 1, last)

\* data.resample('B').agg(...).dropna()
Resample(bars) == ResampleFrom(bars, bars[1].day, bars[Len(bars)].day)

\* the natural logarithm in units of ln(103/100), of a quotient of two of the
\* closes the model draws; log(0) is -Inf, log(Inf) is Inf, log(x < 0) is NaN
RECURSIVE LogUnits(_)
LogUnits(r) ==
    IF r.n = r.d THEN 0
    ELSE IF r.n > r.d THEN 1 + LogUnits(Rat(r.n * 100, r.d * 103))
    ELSE LogUnits(Rat(r.n * 103, r.d * 100)) - 1

NpLog(r) ==
    IF IsNan(r) THEN NaN
    ELSE IF IsInf(r) THEN (IF r.n > 0 THEN PInf ELSE NaN)
    ELSE IF r.n < 0 THEN NaN
    ELSE IF r.n = 0 THEN NInf
    ELSE Fin(LogUnits(r))

\* the columns IntradayRange and LogReturn added to the daily rows
\* (Close.shift(1) of the first row is NaN)
WithColumns(rows) ==
    [i \in 1..Len(rows) |->
        [day   |-> rows[i].day,
         Open  |-> rows[i].Open,
         High  |-> rows[i].High,
         Low   |-> rows[i].Low,
         Close |-> rows[i].Close,
         IntradayRange |->
             FMul(FDiv(FSub(rows[i].High, rows[i].Low), rows[i].Open), Fin(100)),
         LogReturn |->
             IF i = 1 THEN NaN ELSE NpLog(FDiv(rows[i].Close, rows[i - 1].Close))]]

RECURSIVE DropNaRange(_)
DropNaRange(rows) ==
    IF rows = <<>> THEN <<>>
    ELSE IF IsNan(Head(rows).IntradayRange) THEN DropNaRange(Tail(rows))
    ELSE <<Head(rows)>> \o DropNaRange(Tail(rows))

\* the check np.isnan(x) or np.isinf(x), replaced by 0.0
Sanitize(x) == IF IsNan(x) \/ IsInf(x) THEN Zero ELSE x

(***************************************************************************)
(* _compute_window_stats                                                   *)
(***************************************************************************)
\* x > mean + c * std, decided on squares (std is the root of variance)
GtSigma(x, mean, variance, c) ==
    LET dev == FSub(x, mean)
    IN  FGt(dev, Zero) /\ FGt(FMul(dev, dev), FMul(Fin(c * c), variance))

\* np.sum(ranges > mean_range + c * std_range)
CountGtSigma(xs, mean, variance, c) ==
    Cardinality({i \in 1..Len(xs) : GtSigma(xs[i], mean, variance, c)})

\* std_range as the code leaves it after line 316 (carried as a variance)
StdRange(ranges) == IF Len(ranges) > 1 THEN Sanitize(FVar(ranges)) ELSE Zero

\* the guard of lines 369 and 384: std_range > 0 and not NaN and not Inf
StdUsable(std) == FGt(std, Zero) /\ ~IsNan(std) /\ ~IsInf(std)

\* Consistency as the bare quotient avg_range / std_range
ConsistencyUnguarded(avg_range, std_range) ==
    FDiv(FMul(avg_range, FAbs(avg_range)), std_range)

\* lines 367-375 (carried as the signed square avg * |avg| / variance)
Consistency(avg_range, std_range) ==
    IF StdUsable(std_range)
    THEN Sanitize(FDiv(FMul(avg_range, FAbs(avg_range)), std_range))
    ELSE Zero

\* lines 382-396: the count of ranges above mean + c * std
ExtremeDays(ranges, std_range, c) ==
    IF StdUsable(std_range) /\ Len(ranges) > 0
    THEN (IF ~(IsNan(FMean(ranges)) \/ IsInf(FMean(ranges)))
          THEN CountGtSigma(ranges, FMean(ranges), std_range, c)
          ELSE 0)
    ELSE 0

\* lines 354-365 (carried as the square: variance * 252 * 100^2)
RealizedVol(log_returns) ==
    IF Len(log_returns) > 1
    THEN (IF StdUsable(FVar(log_returns))
          THEN Sanitize(FMul(FVar(log_returns), Fin(252 * 100 * 100)))
          ELSE Zero)
    ELSE Zero

\* lines 321-345: one value of the percentile ladder, NaN and Inf replaced
LadderValue(ranges, q) == Sanitize(Percentile(ranges, q))

ComputeWindowStats(window_data) ==
    IF window_data = <<>> THEN None
    ELSE
    LET ranges      == Column(window_data, "IntradayRange")
        log_returns == DropNaN(Column(window_data, "LogReturn"))
        avg_range   == Sanitize(FMean(ranges))
        std_range   == StdRange(ranges)
        max_range   == FMax(ranges)
        min_range   == FMin(ranges)
    IN  [k |-> "window",
         avg_intraday_range      |-> avg_range,
         std_intraday_range      |-> std_range,
         daily_std_dev           |-> Sanitize(std_range),
         median_intraday_range   |-> FMedian(ranges),
         max_intraday_range      |-> max_range,
         min_intraday_range      |-> min_range,
         realized_volatility     |-> RealizedVol(log_returns),
         consistency_score       |-> Consistency(avg_range, std_range),
         swing_2pct_days         |-> CountGt(ranges, Fin(SWING_THRESHOLD_2)),
         swing_3pct_days         |-> CountGt(ranges, Fin(SWING_THRESHOLD_3)),
         extreme_move_days       |-> ExtremeDays(ranges, std_range, 2),
         ultra_extreme_move_days |-> ExtremeDays(ranges, std_range, 3),
         days_in_window          |-> Len(window_data),
         std_dev_25th            |-> LadderValue(ranges, 25),
         std_dev_50th            |-> LadderValue(ranges, 50),
         std_dev_75th            |-> LadderValue(ranges, 75),
         std_dev_90th            |-> LadderValue(ranges, 90),
         std_dev_95th            |-> LadderValue(ranges, 95),
         std_dev_99th            |-> LadderValue(ranges, 99),
         min_range_pct           |-> min_range,
         max_range_pct           |-> max_range,
         range_spread_pct        |-> FSub(max_range, min_range)]

(***************************************************************************)
(* compute_intraday_stats                                                  *)
(***************************************************************************)
\* lines 223-242: the daily series of the fetched bars
DailyData(bars) == IF LooksIntraday(bars) THEN Resample(bars) ELSE bars

\* lines 247-259: the rows whose IntradayRange is not NaN
ValidRows(daily) == DropNaRange(WithColumns(daily))

\* Window without the test of the number of rows
WindowUnconditional(rows, w, need) == ComputeWindowStats(TailN(rows, w))

\* line 272-276: a window of the last w rows, present from need rows on
Window(rows, w, need) ==
    IF Len(rows) >= need THEN ComputeWindowStats(TailN(rows, w)) ELSE None

WindowNames ==
    {"today", "last_3_days", "last_7_days", "last_30_days", "last_3_months",
     "last_1_year"}

\* TooFew that lets one row less pass
TooFewOffByOne(rows) == Len(rows) < MIN_DAYS_REQUIRED - 1

\* lines 217, 244, 261: len(...) < MIN_DAYS_REQUIRED
TooFew(rows) == Len(rows) < MIN_DAYS_REQUIRED

\* TotalDays that counts only the rows whose IntradayRange is finite
TotalDaysFinite(daily_data) ==
    Cardinality({i \in 1..Len(daily_data) : IsFinite(daily_data[i].IntradayRange)})

\* line 270: 'total_days': len(daily_data)
TotalDays(daily_data) == Len(daily_data)

ComputeIntradayStats(data, ticker) ==
    IF IsNone(data) THEN None
    ELSE IF TooFew(data.bars) THEN None
    ELSE IF TooFew(DailyData(data.bars)) THEN None
    ELSE IF TooFew(ValidRows(DailyData(data.bars))) THEN None
    ELSE
    LET daily_data == ValidRows(DailyData(data.bars))
    IN  [k |-> "stats",
         ticker        |-> ticker,
         total_days    |-> TotalDays(daily_data),
         today         |-> Window(daily_data, 1, 1),
         last_3_days   |-> Window(daily_data, 3, 3),
         last_7_days   |-> Window(daily_data, 7, 7),
         last_30_days  |-> Window(daily_data, 30, 30),
         last_3_months |-> Window(daily_data, 90, 60),
         last_1_year   |-> Window(daily_data, 252, 180)]

(***************************************************************************)
(* The price histories the engine is run on                                *)
(***************************************************************************)
MaxDays == 6

\* one trading day: a 1 % range, a 3 % range, an open of 0, a missing open
DayKinds ==
    { [Open |-> Fin(100), High |-> Fin(101), Low |-> Fin(100), Close |-> Fin(100)],
      [Open |-> Fin(100), High |-> Fin(103), Low |-> Fin(100), Close |-> Fin(103)],
      [Open |-> Fin(0),   High |-> Fin(101), Low |-> Fin(100), Close |-> Fin(100)],
      [Open |-> NaN,      High |-> Fin(101), Low |-> Fin(100), Close |-> Fin(100)] }

DaySeqs == UNION {[1..n -> DayKinds] : n \in 0..MaxDays}

\* daily bars: one bar a day
DailyBars(days) ==
    [i \in 1..Len(days) |->
        [day |-> i, Open |-> days[i].Open, High |-> days[i].High,
         Low |-> days[i].Low, Close |-> days[i].Close]]

\* 5-minute bars: two bars a day, the first opening the day and making its
\* high and low, the second closing it
IntradayBars(days) ==
    [j \in 1..(2 * Len(days)) |->
        LET dk == days[(j + 1) \div 2]
        IN  IF j % 2 = 1
            THEN [day |-> (j + 1) \div 2, Open |-> dk.Open, High |-> dk.High,
                  Low |-> dk.Low, Close |-> dk.Low]
            ELSE [day |-> (j + 1) \div 2,
                  Open |-> IF IsNan(dk.Open) THEN NaN ELSE dk.Close,
                  High |-> dk.Close, Low |-> dk.Low, Close |-> dk.Close]]

Frame(bars) == [k |-> "frame", bars |-> bars]

InputData ==
    {None} \cup {Frame(DailyBars(d)) : d \in DaySeqs}
           \cup {Frame(IntradayBars(d)) : d \in DaySeqs}

(***************************************************************************)
(* The result cache and process_ticker                                     *)
(*                                                                         *)
(* Time is counted in ticks, TicksPerHour to the hour.  A cache is a       *)
(* function from tickers to entries; Absent marks a ticker without entry.  *)
(* An entry read from the cache file is any JSON value: a mapping with a   *)
(* timestamp (an ISO string, a string that is no ISO date, or no timestamp *)
(* key) and stats, or a value that is no mapping.                          *)
(***************************************************************************)
TicksPerHour == 2

ExpiryTicks == CACHE_EXPIRY_HOURS * TicksPerHour

\* the tick of '2000-01-01', the timestamp line 431 assumes for an entry
\* that has none; the clock of a run starts later than an expiry after it
DEFAULT_TIMESTAMP == 0

StartTime == DEFAULT_TIMESTAMP + ExpiryTicks + 2

Tickers == {"T1", "T2"}

Absent == [k |-> "absent"]

Iso(t) == [k |-> "iso", t |-> t]

BadString == [k |-> "badstring"]

NoKey == [k |-> "nokey"]

Entry(ts, stats) == [k |-> "entry", timestamp |-> ts, stats |-> stats]

NotMapping == [k |-> "notmapping"]

EmptyCache == [t \in Tickers |-> Absent]

\* datetime.fromisoformat(cached_data.get('timestamp', '2000-01-01')) raises
\* for a string that is no ISO date; cached_data.get raises for a value that
\* is no mapping
LookupRaises(e) ==
    \/ e.k = "notmapping"
    \/ e.k = "entry" /\ e.timestamp.k = "badstring"

CacheTime(e) == IF e.timestamp.k = "nokey" THEN DEFAULT_TIMESTAMP ELSE e.timestamp.t

\* IsFresh with <= in place of <
IsFreshUpToExpiry(e, now) == now - CacheTime(e) <= ExpiryTicks

\* (datetime.now() - cache_time).total_seconds() < CACHE_EXPIRY_HOURS * 3600
IsFresh(e, now) == now - CacheTime(e) < ExpiryTicks

\* the histories the provider returns to the batch run: nothing, three
\* days, five days
DayA == [Open |-> Fin(100), High |-> Fin(101), Low |-> Fin(100), Close |-> Fin(100)]

DayB == [Open |-> Fin(100), High |-> Fin(103), Low |-> Fin(100), Close |-> Fin(103)]

FetchResults ==
    { None,
      Frame(DailyBars(<<DayA, DayB, DayA>>)),
      Frame(DailyBars(<<DayA, DayB, DayA, DayB, DayB>>)) }

\* compute_intraday_stats(data, ticker) tabulated over the histories the
\* provider returns
StatsTable ==
    [t \in Tickers |-> [f \in FetchResults |-> ComputeIntradayStats(f, t)]]

\* StoreEntry that keeps an entry the ticker already has
StoreEntryIfAbsent(cache, ticker, ts, stats) ==
    IF cache[ticker] = Absent
    THEN [cache EXCEPT ![ticker] = Entry(Iso(ts), stats)]
    ELSE cache

\* lines 446-450: cache[ticker] = {'timestamp': now, 'stats': stats}
StoreEntry(cache, ticker, ts, stats) ==
    [cache EXCEPT ![ticker] = Entry(Iso(ts), stats)]

\* ProcessTicker that stores an entry without stats also when the fetch
\* gave no data
ProcessTickerCachesFailure(cache, ticker, now, fetched, dur, table) ==
    IF cache[ticker] # Absent /\ LookupRaises(cache[ticker])
    THEN [outcome |-> "raised", ret |-> None, cache |-> cache,
          fetch |-> FALSE, now |-> now]
    ELSE IF cache[ticker] # Absent /\ IsFresh(cache[ticker], now)
    THEN [outcome |-> "hit", ret |-> cache[ticker].stats, cache |-> cache,
          fetch |-> FALSE, now |-> now]
    ELSE IF IsNone(fetched)
    THEN [outcome |-> "nodata", ret |-> None,
          cache |-> StoreEntry(cache, ticker, now + dur, None),
          fetch |-> TRUE, now |-> now + dur]
    ELSE LET stats == table[ticker][fetched]
         IN  [outcome |-> "stored", ret |-> stats,
              cache |-> StoreEntry(cache, ticker, now + dur, stats),
              fetch |-> TRUE, now |-> now + dur]

\* process_ticker(ticker, cache) called at time now, where the fetch, if it
\* is made, returns fetched and takes dur ticks, and compute_intraday_stats
\* returns table[ticker][fetched].  outcome tells how the call
\* ended: "raised" (an exception left the function), "hit", "nodata" or
\* "stored"; cache and now are the cache and the clock it leaves.
ProcessTicker(cache, ticker, now, fetched, dur, table) ==
    IF cache[ticker] # Absent /\ LookupRaises(cache[ticker])
    THEN [outcome |-> "raised", ret |-> None, cache |-> cache,
          fetch |-> FALSE, now |-> now]
    ELSE IF cache[ticker] # Absent /\ IsFresh(cache[ticker], now)
    THEN [outcome |-> "hit", ret |-> cache[ticker].stats, cache |-> cache,
          fetch |-> FALSE, now |-> now]
    ELSE IF IsNone(fetched)
    THEN [outcome |-> "nodata", ret |-> None, cache |-> cache,
          fetch |-> TRUE, now |-> now + dur]
    ELSE LET stats == table[ticker][fetched]
         IN  [outcome |-> "stored", ret |-> stats,
              cache |-> StoreEntry(cache, ticker, now + dur, stats),
              fetch |-> TRUE, now |-> now + dur]

(***************************************************************************)
(* load_cache and save_cache.  The cache file is missing, unreadable as    *)
(* JSON, or holds a JSON mapping.                                          *)
(***************************************************************************)
Missing == [k |-> "missing"]

Corrupt == [k |-> "corrupt"]

Json(v) == [k |-> "json", v |-> v]

\* LoadCache without the except around json.load
LoadCacheUncaught(f) ==
    IF f.k = "missing" THEN [raised |-> FALSE, cache |-> EmptyCache]
    ELSE IF f.k = "corrupt" THEN [raised |-> TRUE, cache |-> EmptyCache]
    ELSE [raised |-> FALSE, cache |-> f.v]

\* load_cache: {} unless the file exists and json.load succeeds
LoadCache(f) ==
    IF f.k = "missing" THEN [raised |-> FALSE, cache |-> EmptyCache]
    ELSE IF f.k = "corrupt" THEN [raised |-> FALSE, cache |-> EmptyCache]
    ELSE [raised |-> FALSE, cache |-> f.v]

\* lines 649-664 and _convert_numpy_types: a copy of the cache with the same
\* keys and values, built without touching the cache itself
Serializable(cache) == [t \in Tickers |-> cache[t]]

\* save_cache(cache) where the write ends as io says: "ok", "open_failed"
\* (open raises, the file is as before) or "dump_failed" (json.dump raises
\* after open has truncated the file).  Every exception is caught.
SaveCache(cache, f, io) ==
    [raised |-> FALSE,
     cache  |-> cache,
     file   |-> IF io = "ok" THEN Json(Serializable(cache))
                ELSE IF io = "open_failed" THEN f
                ELSE Corrupt]

IoOutcomes == {"ok", "open_failed", "dump_failed"}

(***************************************************************************)
(* aggregate_results                                                       *)
(***************************************************************************)
InList(x, xs) == \E i \in 1..Len(xs) : xs[i] = x

RECURSIVE KeepStats(_, _, _)
KeepStats(all_stats, etfs, cat) ==
    IF all_stats = <<>> THEN <<>>
    ELSE LET st   == Head(all_stats)
             rest == KeepStats(Tail(all_stats), etfs, cat)
         IN  IF IsNone(st) THEN rest
             ELSE IF st.ticker = "" THEN rest
             ELSE IF cat = "all" THEN <<st>> \o rest
             ELSE IF cat = "etfs" /\ InList(st.ticker, etfs) THEN <<st>> \o rest
             ELSE IF cat = "stocks" /\ ~InList(st.ticker, etfs) THEN <<st>> \o rest
             ELSE rest

\* AggregateResults that files under stocks only the tickers of the nasdaq
\* and nyse lists
AggregateResultsListedOnly(all_stats, ticker_types) ==
    [all    |-> KeepStats(all_stats, ticker_types.etfs, "all"),
     stocks |-> SelectSeq(KeepStats(all_stats, ticker_types.etfs, "stocks"),
                          LAMBDA st : InList(st.ticker,
                                             ticker_types.nasdaq \o ticker_types.nyse)),
     etfs   |-> KeepStats(all_stats, ticker_types.etfs, "etfs")]

AggregateResults(all_stats, ticker_types) ==
    [all    |-> KeepStats(all_stats, ticker_types.etfs, "all"),
     stocks |-> KeepStats(all_stats, ticker_types.etfs, "stocks"),
     etfs   |-> KeepStats(all_stats, ticker_types.etfs, "etfs")]

(***************************************************************************)
(* rank_results                                                            *)
(***************************************************************************)
\* lines 516-517: the stat has data for the window
HasWindow(stat, window) == ~IsNone(stat[window])

\* lines 518-521: {'ticker': stat['ticker'], **window_data}
RowOf(stat, window) ==
    [f \in (DOMAIN stat[window] \ {"k"}) \cup {"ticker"} |->
        IF f = "ticker" THEN stat.ticker ELSE stat[window][f]]

\* lines 514-521: the rows of the stats that have the window, in list order
RECURSIVE ValidStats(_, _)
ValidStats(stats_list, window) ==
    IF stats_list = <<>> THEN <<>>
    ELSE IF HasWindow(Head(stats_list), window)
         THEN <<RowOf(Head(stats_list), window)>> \o ValidStats(Tail(stats_list), window)
         ELSE ValidStats(Tail(stats_list), window)

\* the columns that hold counts; the others hold floats
IntColumns ==
    {"swing_2pct_days", "swing_3pct_days", "extreme_move_days",
     "ultra_extreme_move_days", "days_in_window"}

KeyOf(row, col) == IF col \in IntColumns THEN Fin(row[col]) ELSE row[col]

\* how the sort orders rows of equal key.  sort_values is called with its
\* default kind 'quicksort', which gives no guarantee on them: the build keeps
\* them in input order or it does not (here: reverses them), the same way on
\* every call
TieOrders == {"input", "reversed"}

\* RowBefore for an ascending sort
RowBeforeAscending(df, col, tie, i, j) ==
    LET ki == KeyOf(df[i], col)
        kj == KeyOf(df[j], col)
    IN  IF IsNan(ki) \/ IsNan(kj)
        THEN (IF IsNan(ki) /\ IsNan(kj) THEN i < j ELSE IsNan(kj))
        ELSE IF FGt(kj, ki) THEN TRUE
        ELSE IF FGt(ki, kj) THEN FALSE
        ELSE IF tie = "input" THEN i < j ELSE i > j

\* row i comes before row j in df.sort_values(col, ascending=False): the
\* greater key first, NaN keys last (na_position='last') in input order
RowBefore(df, col, tie, i, j) ==
    LET ki == KeyOf(df[i], col)
        kj == KeyOf(df[j], col)
    IN  IF IsNan(ki) \/ IsNan(kj)
        THEN (IF IsNan(ki) /\ IsNan(kj) THEN i < j ELSE IsNan(kj))
        ELSE IF FGt(ki, kj) THEN TRUE
        ELSE IF FGt(kj, ki) THEN FALSE
        ELSE IF tie = "input" THEN i < j ELSE i > j

\* df.sort_values(col, ascending=False)
SortValues(df, col, tie) ==
    LET n      == Len(df)
        pos(i) == 1 + Cardinality({j \in 1..n : j # i /\ RowBefore(df, col, tie, j, i)})
        at     == [p \in 1..n |-> CHOOSE i \in 1..n : pos(i) = p]
    IN  [p \in 1..n |-> df[at[p]]]

\* sorted_df[[columns]]
Project(df, cols) == [p \in 1..Len(df) |-> [c \in cols |-> df[p][c]]]

\* line 543: df[df['consistency_score'].notna() & (df['consistency_score'] != np.inf)]
ConsistencyDf(df) ==
    SelectSeq(df, LAMBDA r : ~IsNan(r.consistency_score) /\ r.consistency_score # PInf)

RankingColumns ==
    [highest_avg_range  |->
        {"ticker", "avg_intraday_range", "std_intraday_range", "consistency_score",
         "swing_2pct_days", "swing_3pct_days", "extreme_move_days"},
     most_consistent    |->
        {"ticker", "consistency_score", "avg_intraday_range", "std_intraday_range",
         "swing_2pct_days", "swing_3pct_days"},
     most_2pct_swings   |->
        {"ticker", "swing_2pct_days", "swing_3pct_days", "avg_intraday_range",
         "extreme_move_days", "days_in_window"},
     most_3pct_swings   |->
        {"ticker", "swing_3pct_days", "swing_2pct_days", "avg_intraday_range",
         "extreme_move_days", "days_in_window"},
     most_extreme_moves |->
        {"ticker", "extreme_move_days", "avg_intraday_range", "std_intraday_range",
         "swing_2pct_days", "swing_3pct_days"}]

\* the column each ranking is sorted by
Criterion ==
    [highest_avg_range  |-> "avg_intraday_range",
     most_consistent    |-> "consistency_score",
     most_2pct_swings   |-> "swing_2pct_days",
     most_3pct_swings   |-> "swing_3pct_days",
     most_extreme_moves |-> "extreme_move_days"]

RankingTypes == DOMAIN Criterion

\* a category that rank_results leaves out of its result
NoCategory == [k |-> "nocategory"]

\* lines 526-572: the five rankings of one category
CategoryRankings(df, tie) ==
    [k |-> "rankings",
     highest_avg_range  |->
        Project(SortValues(df, "avg_intraday_range", tie),
                RankingColumns.highest_avg_range),
     most_consistent    |->
        Project(SortValues(ConsistencyDf(df), "consistency_score", tie),
                RankingColumns.most_consistent),
     most_2pct_swings   |->
        Project(SortValues(df, "swing_2pct_days", tie),
                RankingColumns.most_2pct_swings),
     most_3pct_swings   |->
        Project(SortValues(df, "swing_3pct_days", tie),
                RankingColumns.most_3pct_swings),
     most_extreme_moves |->
        Project(SortValues(df, "extreme_move_days", tie),
                RankingColumns.most_extreme_moves)]

\* rank_results(aggregated_results, window)
RankResults(aggregated_results, window, tie) ==
    [category \in {"all", "stocks", "etfs"} |->
        IF ValidStats(aggregated_results[category], window) = <<>>
        THEN NoCategory
        ELSE CategoryRankings(ValidStats(aggregated_results[category], window), tie)]

\* StatAfterRank that writes the ticker into the window data of the stat
StatAfterRankInPlace(stat, window) ==
    IF IsNone(stat) THEN stat
    ELSE IF IsNone(stat[window]) THEN stat
    ELSE [stat EXCEPT ![window] =
             [f \in DOMAIN stat[window] \cup {"ticker"} |->
                 IF f = "ticker" THEN stat.ticker ELSE stat[window][f]]]

\* a stat of the input as rank_results leaves it: the row is a new dict
\* (lines 518-521), the stat and its window data are only read
StatAfterRank(stat, window) == stat

NoRankings == [category \in {"all", "stocks", "etfs"} |-> NoCategory]

(***************************************************************************)
(* export_to_csv.  The output directory is a function from the names       *)
(* {category}_{ranking_type}_{window}.csv of the files that exist to what  *)
(* each file holds.                                                        *)
(***************************************************************************)
FileNames ==
    [category : {"all", "stocks", "etfs"}, ranking_type : RankingTypes,
     window : WindowNames]

NoFile == [k |-> "nofile"]

EmptyDir == [name \in {} |-> NoFile]

\* line 629: df.to_csv(filepath, index=False): a header and the rows of df
Csv(df) == [k |-> "csv", rows |-> df]

\* lines 615-623: the table export_to_csv writes under the name, if any
Written(rankings, window, name) ==
    IF name.window # window THEN NoFile
    ELSE IF rankings[name.category] = NoCategory THEN NoFile
    ELSE IF rankings[name.category][name.ranking_type] = <<>> THEN NoFile
    ELSE Csv(rankings[name.category][name.ranking_type])

\* export_to_csv(rankings, window): a file is written or left as it is
ExportToCsv(dir, rankings, window) ==
    [name \in DOMAIN dir \cup {n \in FileNames : Written(rankings, window, n) # NoFile} |->
        IF Written(rankings, window, name) # NoFile
        THEN Written(rankings, window, name)
        ELSE dir[name]]

(***************************************************************************)
(* get_intraday_data.  What yfinance does for the ticker is a record:      *)
(* whether yf.Ticker(ticker) raises, and what history() does for the       *)
(* 5-minute and for the daily request: it raises, it returns something     *)
(* that is no DataFrame, or it returns a DataFrame, with rows or without.  *)
(***************************************************************************)
REQUIRED_COLS == {"Open", "High", "Low", "Close"}

Raises == [k |-> "raises"]

NotDataFrame == [k |-> "notframe"]

\* a DataFrame with the given rows and columns
Df(rows, columns) == [k |-> "frame", bars |-> rows, columns |-> columns]

\* pd.DataFrame()
EmptyDf == Df(<<>>, {})

\* lines 178-181 and 187-190: history() inside try / except: pd.DataFrame()
HistoryOrEmpty(response) == IF response.k = "raises" THEN EmptyDf ELSE response

\* data.empty
IsEmpty(df) == df.bars = <<>> \/ df.columns = {}

\* NeedsFallback that never asks for daily bars
NeedsFallbackNever(df) == FALSE

\* line 183: if data.empty
NeedsFallback(df) == IsEmpty(df)

\* lines 195-199: None unless every required column is there
CheckColumns(df) == IF REQUIRED_COLS \subseteq df.columns THEN df ELSE None

\* get_intraday_data(ticker): what it returns, the intervals it requested in
\* order, and whether an exception left it.  An exception raised anywhere
\* outside the two inner try blocks (yf.Ticker, .empty of a value that is no
\* DataFrame) is caught at line 201.
GetIntradayData(yf) ==
    IF yf.ticker = "raises"
    THEN [k |-> "fetched", ret |-> None, requests |-> <<>>, raised |-> FALSE]
    ELSE LET first == HistoryOrEmpty(yf.intraday)
         IN  IF first.k = "notframe"
             THEN [k |-> "fetched", ret |-> None, requests |-> <<"5m">>,
                   raised |-> FALSE]
             ELSE IF ~NeedsFallback(first)
             THEN [k |-> "fetched", ret |-> CheckColumns(first),
                   requests |-> <<"5m">>, raised |-> FALSE]
             ELSE LET second == HistoryOrEmpty(yf.daily)
                  IN  IF second.k = "notframe"
                      THEN [k |-> "fetched", ret |-> None,
                            requests |-> <<"5m", "1d">>, raised |-> FALSE]
                      ELSE IF IsEmpty(second)
                      THEN [k |-> "fetched", ret |-> None,
                            requests |-> <<"5m", "1d">>, raised |-> FALSE]
                      ELSE [k |-> "fetched", ret |-> CheckColumns(second),
                            requests |-> <<"5m", "1d">>, raised |-> FALSE]

\* what history() may do: a DataFrame with rows has the Volume column and any
\* of the four price columns
Responses(rows) ==
    {Raises, NotDataFrame, EmptyDf}
        \cup {Df(<<>>, REQUIRED_COLS \cup {"Volume"})}
        \cup {Df(rows, cols \cup {"Volume"}) : cols \in SUBSET REQUIRED_COLS}

Providers ==
    {[ticker |-> t, intraday |-> i, daily |-> d] :
        t \in {"ok", "raises"},
        i \in Responses(IntradayBars(<<DayA, DayB>>)),
        d \in Responses(DailyBars(<<DayA, DayB, DayA>>))}

NoFetch == [k |-> "none"]

(***************************************************************************)
(* The live scanner (src/nasdaq_volatility_scanner.py): compute_zscore and *)
(* VolatilityScanner.process_ticker.  A Z-score is a quotient by a         *)
(* standard deviation and is carried by its signed square                  *)
(* dev * |dev| / variance; the threshold is compared on squares.           *)
(***************************************************************************)
VOLATILITY_WINDOW_DAYS == 20

MIN_BARS_REQUIRED == 100

Z_SCORE_THRESHOLD == 2

ALERT_COOLDOWN_HOURS == 1

\* BATCH_SIZE of the scanner is 50 in the source (line 31); the model runs
\* lists of at most three tickers in batches of 2
SCAN_BATCH_SIZE == 2

\* np.diff(np.log(closes)): log(b) - log(a) is the logarithm of b / a
DiffLog(closes) ==
    [i \in 1..(Len(closes) - 1) |-> NpLog(FDiv(closes[i + 1], closes[i]))]

Min(a, b) == IF a < b THEN a ELSE b

\* compute_zscore(data) for the frame data, or None
ComputeZscore(data) ==
    IF IsNone(data) THEN None
    ELSE IF Len(data.Close) < MIN_BARS_REQUIRED THEN None
    ELSE
    LET closes      == data.Close
        log_returns == DiffLog(closes)
        window_size == Min(Len(log_returns), VOLATILITY_WINDOW_DAYS * 78)
    IN  IF Len(log_returns) < MIN_BARS_REQUIRED THEN None
        ELSE IF window_size < 50 THEN None
        ELSE
        LET recent_returns == TailN(log_returns, window_size)
            mean_return    == FMean(recent_returns)
            std_return     == FVar(recent_returns)
            current_return == log_returns[Len(log_returns)]
            dev            == FSub(current_return, mean_return)
        IN  IF std_return = Zero \/ IsNan(std_return) THEN None
            ELSE [k |-> "zscore",
                  zscore       |-> FDiv(FMul(dev, FAbs(dev)), std_return),
                  percent_move |->
                      FMul(FDiv(FSub(closes[Len(closes)], closes[Len(closes) - 1]),
                                closes[Len(closes) - 1]), Fin(100)),
                  stats |->
                      [mean_return    |-> mean_return,
                       std_return     |-> std_return,
                       current_return |-> current_return,
                       current_price  |-> closes[Len(closes)],
                       previous_price |-> closes[Len(closes) - 1],
                       bars_used      |-> Len(recent_returns)]]

\* Exceeds with >= in place of >
ExceedsOrEquals(zscore) ==
    ~IsNan(zscore)
    /\ ~FGt(Fin(Z_SCORE_THRESHOLD * Z_SCORE_THRESHOLD), FAbs(zscore))

\* line 378: abs(zscore) > Z_SCORE_THRESHOLD
Exceeds(zscore) == FGt(FAbs(zscore), Fin(Z_SCORE_THRESHOLD * Z_SCORE_THRESHOLD))

CooldownTicks == ALERT_COOLDOWN_HOURS * TicksPerHour

\* a ticker without entry in alert_history
NoAlert == [k |-> "noalert"]

\* At with a time read a tick earlier, before the task was resumed
AtStale(t) == [k |-> "at", t |-> t - 1]

At(t) == [k |-> "at", t |-> t]

\* InCooldown with a cooldown one tick shorter
InCooldownCutShort(last_alert, clock) ==
    last_alert # NoAlert /\ clock - last_alert.t < CooldownTicks - 1

\* line 381: last_alert and (datetime.now() - last_alert) < timedelta(hours=1)
InCooldown(last_alert, clock) ==
    last_alert # NoAlert /\ clock - last_alert.t < CooldownTicks

\* ScannerProcessTicker without the update of alert_history at line 394
ScannerProcessTickerNoUpdate(alert_history, ticker, result, clock, lag) ==
    IF IsNone(result)
    THEN [ret |-> None, alert_history |-> alert_history, clock |-> clock]
    ELSE IF ~Exceeds(result.zscore)
    THEN [ret |-> None, alert_history |-> alert_history, clock |-> clock]
    ELSE IF InCooldown(alert_history[ticker], clock)
    THEN [ret |-> None, alert_history |-> alert_history, clock |-> clock]
    ELSE [ret |-> [k |-> "alert", ticker |-> ticker, zscore |-> result.zscore,
                   percent_move |-> result.percent_move, stats |-> result.stats,
                   timestamp |-> clock],
          alert_history |-> alert_history,
          clock |-> clock + lag]

\* VolatilityScanner.process_ticker(ticker) from line 370 on, called at time
\* clock with the result of compute_zscore; lag is what the clock advances
\* between the datetime.now() of line 390 and that of line 394
ScannerProcessTicker(alert_history, ticker, result, clock, lag) ==
    IF IsNone(result)
    THEN [ret |-> None, alert_history |-> alert_history, clock |-> clock]
    ELSE IF ~Exceeds(result.zscore)
    THEN [ret |-> None, alert_history |-> alert_history, clock |-> clock]
    ELSE IF InCooldown(alert_history[ticker], clock)
    THEN [ret |-> None, alert_history |-> alert_history, clock |-> clock]
    ELSE [ret |-> [k |-> "alert", ticker |-> ticker, zscore |-> result.zscore,
                   percent_move |-> result.percent_move, stats |-> result.stats,
                   timestamp |-> clock],
          alert_history |-> [alert_history EXCEPT ![ticker] = At(clock + lag)],
          clock |-> clock + lag]

\* Pruned with the cooldown as the cutoff, without the hour of buffer
PrunedAtCooldown(alert_history, clock) ==
    [t \in DOMAIN alert_history |->
        IF alert_history[t] # NoAlert
           /\ alert_history[t].t > clock - ALERT_COOLDOWN_HOURS * TicksPerHour
        THEN alert_history[t]
        ELSE NoAlert]

\* lines 476-480: the entries of alert_history newer than the cutoff
Pruned(alert_history, clock) ==
    [t \in DOMAIN alert_history |->
        IF alert_history[t] # NoAlert
           /\ alert_history[t].t > clock - (ALERT_COOLDOWN_HOURS + 1) * TicksPerHour
        THEN alert_history[t]
        ELSE NoAlert]

\* the close after a log return of r units of ln(103/100)
RECURSIVE Grow(_, _)
Grow(close, r) ==
    IF r = 0 THEN close
    ELSE IF r > 0 THEN Grow(FMul(close, Rat(103, 100)), r - 1)
    ELSE Grow(FMul(close, Rat(100, 103)), r + 1)

\* the sum of the first n of the returns
RECURSIVE Level(_, _)
Level(returns, n) == IF n = 0 THEN 0 ELSE returns[n] + Level(returns, n - 1)

\* the closes that have the given log returns, from a first close on
ClosesFrom(close, returns) ==
    [i \in 1..(Len(returns) + 1) |-> Grow(close, Level(returns, i - 1))]

Repeat(xs, n) == [i \in 1..(n * Len(xs)) |-> xs[((i - 1) % Len(xs)) + 1]]

Mirror(xs) == [i \in 1..Len(xs) |-> -xs[i]]

\* 104 returns whose sum is -last: bars without move, 12 bars up and
\* 12 + last bars down
Body(last) ==
    Repeat(<<0>>, 80 - last) \o Repeat(<<1, -1>>, 12) \o Repeat(<<-1>>, last)

Series(returns) == [k |-> "frame", Close |-> ClosesFrom(Fin(1), returns)]

\* the 5-minute series the provider may return for a ticker, by name: no
\* data; 100 bars; 106 bars without any move; 106 bars of mean return 0 whose
\* last return is 0, exactly 2, more than 2, exactly -2 and less than -2
\* standard deviations
ScanSeries ==
    [none         |-> None,
     short        |-> Series(Repeat(<<1, -1>>, 49) \o <<2>>),
     flat         |-> Series(Repeat(<<0>>, 105)),
     quiet        |-> Series(Body(0) \o <<0>>),
     at_two       |-> Series(Body(1) \o <<1>>),
     above        |-> Series(Body(2) \o <<2>>),
     at_minus_two |-> Series(Mirror(Body(1)) \o <<-1>>),
     below        |-> Series(Mirror(Body(2)) \o <<-2>>)]

\* the series the provider may return for a ticker: T1 is a ticker that may
\* rise, T2 one that may fall
SeriesOf(ticker) ==
    IF ticker = "T1"
    THEN {"none", "short", "flat", "quiet", "at_two", "above", "at_minus_two"}
    ELSE {"none", "quiet", "at_minus_two", "below"}

\* compute_zscore tabulated over the series
ZscoreTable == [name \in DOMAIN ScanSeries |-> ComputeZscore(ScanSeries[name])]

\* what VolatilityScanner.tickers may hold
ScanTickerLists == {<<"T1">>, <<"T1", "T2">>, <<"T1", "T1", "T2">>}

NoScanCall == [k |-> "none"]

(***************************************************************************)
(* The scanner's get_intraday_data (lines 192-226): up to MAX_RETRIES      *)
(* attempts, with a sleep after each failed attempt but the last           *)
(***************************************************************************)
MAX_RETRIES == 3

RETRY_DELAY == 2

\* yf.Ticker or history raising
RaisesAt(where) == [k |-> "raises", at |-> where]

\* a frame without rows, and one with rows and no Close column
EmptyFrame == [k |-> "frame", Close |-> <<>>]

NoCloseFrame == [k |-> "frame", Open |-> <<Fin(1), Fin(1)>>]

\* what the provider may do at one attempt
ScanResponses ==
    {RaisesAt("Ticker"), RaisesAt("history"), EmptyFrame, NoCloseFrame}
        \cup {ScanSeries[name] : name \in DOMAIN ScanSeries \ {"none"}}

\* data.empty
IsEmptyFrame(df) == \A c \in DOMAIN df \ {"k"} : df[c] = <<>>

\* lines 205-218: the body of the try block at one attempt
TryOnce(response) ==
    IF response.k = "raises" THEN [k |-> "raised"]
    ELSE IF IsEmptyFrame(response) THEN [k |-> "return", ret |-> None]
    ELSE IF "Close" \notin DOMAIN response THEN [k |-> "return", ret |-> None]
    ELSE [k |-> "return", ret |-> response]

\* line 221: attempt < MAX_RETRIES - 1 (attempt counts from 0)
ShouldRetry(attempt) == attempt < MAX_RETRIES - 1

\* Backoff with the same delay after every attempt
BackoffConstant(attempt) == RETRY_DELAY

\* line 222: RETRY_DELAY * (attempt + 1)
Backoff(attempt) == RETRY_DELAY * (attempt + 1)

NoTask == [pos |-> "none"]

(***************************************************************************)
(* main                                                                    *)
(***************************************************************************)
\* BATCH_SIZE is 100 in the source (line 32); the model runs universes of at
\* most three tickers in batches of 2
BATCH_SIZE == 2

FLUSH_EVERY == 5

Windows ==
    <<"today", "last_3_days", "last_7_days", "last_30_days", "last_3_months",
      "last_1_year">>

\* what get_tickers returns: the lists nasdaq, nyse and etfs.  nasdaq holds no
\* symbol twice, nyse is empty (_fetch_nyse_tickers returns [], line 126), and
\* a symbol may be in both nasdaq and etfs
TickerTypes ==
    {[nasdaq |-> n, nyse |-> <<>>, etfs |-> e] :
        n \in {<<>>, <<"T1">>, <<"T1", "T2">>, <<"T2", "T1">>},
        e \in {<<>>, <<"T1">>, <<"T2">>}}

AllTickers(tt) == tt.nasdaq \o tt.nyse \o tt.etfs

\* stats an earlier run left in the cache file
OldStats(t) == ComputeIntradayStats(Frame(DailyBars(<<DayA, DayA, DayB, DayA, DayA>>)), t)

\* the entries an earlier run, or anything else writing the file, may have
\* left for ticker t
FileEntries(t) ==
    { Absent, NotMapping,
      Entry(BadString, OldStats(t)),
      Entry(NoKey, OldStats(t)),
      Entry(Iso(StartTime - ExpiryTicks - 1), OldStats(t)),
      Entry(Iso(StartTime - ExpiryTicks), OldStats(t)),
      Entry(Iso(StartTime - 1), OldStats(t)),
      Entry(Iso(StartTime - 1), None) }

\* the mappings the file may hold: any entry for T1, none or a fresh one
\* for T2
FileMaps ==
    {[t \in Tickers |-> IF t = "T1" THEN e1 ELSE e2] :
        e1 \in FileEntries("T1"),
        e2 \in {Absent, Entry(Iso(StartTime - 1), OldStats("T2"))}}

Files == {Missing, Corrupt} \cup {Json(c) : c \in FileMaps}

\* how long a fetch may take: no time, or as long as the cache expiry
FetchTicks == {0, ExpiryTicks}

NoCall == [outcome |-> "none"]

VARIABLES
    data, result, epc,      \* the statistics engine: input, output, position
    file,                   \* the cache file
    cache,                  \* the in-memory cache of the run
    now,                    \* the clock
    ticker_types,           \* the lists get_tickers returned
    idx,                    \* how many tickers of all_tickers were processed
    all_stats,              \* the stats collected by main
    aggregated,             \* the result of aggregate_results
    exported,               \* the windows ranked and exported so far
    pc,                     \* where main is
    call,                   \* the last call of process_ticker
    loaded,                 \* the call of load_cache
    saved,                  \* the last call of save_cache
    dirty,                  \* a cache update was made and save_cache not called since
    computed,               \* StatsTable, evaluated once
    rankings,               \* the result of the last rank_results call
    window,                 \* the window of that call
    tie,                    \* how the build's sort orders rows of equal key
    first,                  \* the results of an earlier aggregation and ranking
    provider,               \* what yfinance does for the ticker being fetched
    fetch_call,             \* the call of get_intraday_data
    fetch_task,             \* the scanner's call of get_intraday_data
    tickers,                \* VolatilityScanner.tickers
    alert_history,          \* VolatilityScanner.alert_history
    scan_count,             \* VolatilityScanner.scan_count
    alerts_sent,            \* VolatilityScanner.alerts_sent
    results,                \* what process_ticker returned for each ticker of the cycle
    all_alerts,             \* the alerts of the cycle that are still to be sent
    delivered,              \* the alerts the transport has accepted
    clock,                  \* the scanner's clock
    scan_call,              \* the last call of VolatilityScanner.process_ticker in the cycle
    spc,                    \* where the scanner is
    zscores,                \* ZscoreTable, evaluated once
    errors,                 \* VolatilityScanner.errors
    credentials,            \* which of TELEGRAM_BOT_TOKEN and TELEGRAM_CHAT_ID are set
    created,                \* the alerts process_ticker has returned, in time order
    handed,                 \* how many alerts of the cycle were passed to send_alert
    persist,                \* a cache taken through save_cache and load_cache
    outdir                  \* the files of the output directory

statsVars == <<data, result, epc>>

mainVars ==
    <<file, cache, now, ticker_types, idx, all_stats, aggregated, exported, pc,
      call, loaded, saved, dirty, computed>>

rankVars == <<rankings, window, tie, first>>

fetchVars == <<provider, fetch_call, fetch_task>>

scanVars ==
    <<tickers, alert_history, scan_count, alerts_sent, results, all_alerts,
      delivered, clock, scan_call, spc, zscores, errors, credentials, created,
      handed>>

diskVars == <<persist, outdir>>

otherVars == <<fetchVars, scanVars, diskVars>>

vars == <<statsVars, mainVars, rankVars, otherVars>>

all_tickers == AllTickers(ticker_types)

NoAggregate == [all |-> <<>>, stocks |-> <<>>, etfs |-> <<>>]

MainIdle ==
    /\ cache = EmptyCache
    /\ now = StartTime
    /\ idx = 0
    /\ all_stats = <<>>
    /\ aggregated = NoAggregate
    /\ exported = <<>>
    /\ call = NoCall
    /\ loaded = [op |-> "none"]
    /\ saved = [op |-> "none"]
    /\ dirty = FALSE
    /\ computed = StatsTable

NoFirst == [k |-> "none"]

RankIdle ==
    /\ rankings = NoRankings
    /\ window = "none"
    /\ tie = "input"
    /\ first = NoFirst

StatsIdle ==
    /\ data = None
    /\ result = None
    /\ epc = "idle"

FetchIdle ==
    /\ provider = [ticker |-> "ok", intraday |-> EmptyDf, daily |-> EmptyDf]
    /\ fetch_call = NoFetch
    /\ fetch_task = NoTask

Pending == [k |-> "pending"]

ScanIdle ==
    /\ tickers = <<>>
    /\ alert_history = [t \in Tickers |-> NoAlert]
    /\ scan_count = 0
    /\ alerts_sent = 0
    /\ results = <<>>
    /\ all_alerts = <<>>
    /\ delivered = <<>>
    /\ clock = 0
    /\ scan_call = NoScanCall
    /\ spc = "idle"
    /\ zscores = None
    /\ errors = 0
    /\ credentials = [token |-> TRUE, chat_id |-> TRUE]
    /\ created = <<>>
    /\ handed = 0

NoPersist == [pos |-> "none"]

DiskIdle == persist = NoPersist /\ outdir = EmptyDir

OtherIdle == FetchIdle /\ ScanIdle /\ DiskIdle

(***************************************************************************)
(* The statistics engine run on every history of InputData                 *)
(***************************************************************************)
InitStats ==
    /\ OtherIdle
    /\ data \in InputData
    /\ result = None
    /\ epc = "input"
    /\ MainIdle
    /\ RankIdle
    /\ file = Missing
    /\ ticker_types = [nasdaq |-> <<>>, nyse |-> <<>>, etfs |-> <<>>]
    /\ pc = "idle"

\* stats = compute_intraday_stats(data, ticker)
Compute ==
    /\ epc = "input"
    /\ result' = ComputeIntradayStats(data, "T1")
    /\ epc' = "computed"
    /\ UNCHANGED <<otherVars, data, mainVars, rankVars>>

NextStats == Compute

SpecStats == InitStats /\ [][NextStats]_vars

(***************************************************************************)
(* The batch run                                                           *)
(***************************************************************************)
Init ==
    /\ OtherIdle
    /\ StatsIdle
    /\ MainIdle
    /\ RankIdle
    /\ file \in Files
    /\ ticker_types \in TickerTypes
    /\ pc = "start"

\* lines 694-700: cache = load_cache(); ticker_types = get_tickers()
Load ==
    /\ pc = "start"
    /\ cache' = LoadCache(file).cache
    /\ loaded' = [op |-> "load_cache", raised |-> LoadCache(file).raised,
                  file |-> file, after |-> LoadCache(file).cache]
    /\ pc' = IF LoadCache(file).raised THEN "crashed" ELSE "loop"
    /\ UNCHANGED <<otherVars, statsVars, file, now, ticker_types, idx, all_stats,
                   aggregated, exported, call, saved, dirty, computed, rankVars>>

\* the position after ticker number i of all_tickers: the batch is over after
\* every BATCH_SIZE-th ticker and after the last one
AfterTicker(i) ==
    IF i % BATCH_SIZE = 0 \/ i = Len(all_tickers) THEN "batch_end" ELSE "loop"

\* lines 712-716: stats = process_ticker(ticker, cache); if stats: append
Process ==
    /\ pc = "loop"
    /\ idx < Len(all_tickers)
    /\ \E fetched \in FetchResults, dur \in FetchTicks :
         LET r == ProcessTicker(cache, all_tickers[idx + 1], now, fetched, dur, computed)
         IN  /\ call' = [outcome |-> r.outcome, ticker |-> all_tickers[idx + 1],
                         ret |-> r.ret, fetch |-> r.fetch, before |-> cache,
                         after |-> r.cache, start |-> now, end |-> r.now]
             /\ cache' = r.cache
             /\ now' = r.now
             /\ dirty' = (dirty \/ r.cache # cache)
             /\ IF r.outcome = "raised"
                THEN /\ pc' = "crashed"
                     /\ UNCHANGED <<idx, all_stats>>
                ELSE /\ pc' = AfterTicker(idx + 1)
                     /\ idx' = idx + 1
                     /\ all_stats' = IF IsNone(r.ret) THEN all_stats
                                     ELSE Append(all_stats, r.ret)
    /\ UNCHANGED <<otherVars, statsVars, file, ticker_types, aggregated, exported, loaded, saved,
                   computed, rankVars>>

SaveStep(kind, io) ==
    LET r == SaveCache(cache, file, io)
    IN  /\ file' = r.file
        /\ cache' = r.cache
        /\ dirty' = FALSE
        /\ saved' = [op |-> "save_cache", raised |-> r.raised, kind |-> kind,
                     io |-> io, before |-> cache, after |-> r.cache]

\* lines 722-724: if (i // BATCH_SIZE) % 5 == 0: save_cache(cache)
BatchEndSave ==
    /\ pc = "batch_end"
    /\ ((idx - 1) \div BATCH_SIZE) % FLUSH_EVERY = 0
    /\ \E io \in IoOutcomes :
         /\ SaveStep("periodic", io)
         /\ pc' = IF SaveCache(cache, file, io).raised THEN "crashed" ELSE "loop"
    /\ UNCHANGED <<otherVars, statsVars, now, ticker_types, idx, all_stats, aggregated,
                   exported, call, loaded, computed, rankVars>>

BatchEndNoSave ==
    /\ pc = "batch_end"
    /\ ((idx - 1) \div BATCH_SIZE) % FLUSH_EVERY # 0
    /\ pc' = "loop"
    /\ UNCHANGED <<otherVars, statsVars, file, cache, now, ticker_types, idx, all_stats,
                   aggregated, exported, call, loaded, saved, dirty, computed, rankVars>>

\* lines 726-727: the final save_cache(cache)
FinalSave ==
    /\ pc = "loop"
    /\ idx = Len(all_tickers)
    /\ \E io \in IoOutcomes :
         /\ SaveStep("final", io)
         /\ pc' = IF SaveCache(cache, file, io).raised THEN "crashed" ELSE "aggregate"
    /\ UNCHANGED <<otherVars, statsVars, now, ticker_types, idx, all_stats, aggregated,
                   exported, call, loaded, computed, rankVars>>

\* rankings = rank_results(aggregated, w): the result, and the stats as the
\* call leaves them (the lists of aggregated hold the stats of all_stats)
RankCall(w) ==
    /\ rankings' = RankResults(aggregated, w, tie)
    /\ window' = w
    /\ all_stats' = [i \in 1..Len(all_stats) |-> StatAfterRank(all_stats[i], w)]
    /\ aggregated' =
          [all    |-> [i \in 1..Len(aggregated.all) |->
                          StatAfterRank(aggregated.all[i], w)],
           stocks |-> [i \in 1..Len(aggregated.stocks) |->
                          StatAfterRank(aggregated.stocks[i], w)],
           etfs   |-> [i \in 1..Len(aggregated.etfs) |->
                          StatAfterRank(aggregated.etfs[i], w)]]

\* line 732: aggregated = aggregate_results(all_stats, ticker_types); from
\* here on the build's sort is what it is
Aggregate ==
    /\ pc = "aggregate"
    /\ aggregated' = AggregateResults(all_stats, ticker_types)
    /\ tie' \in TieOrders
    /\ pc' = "rank"
    /\ UNCHANGED <<otherVars, statsVars, file, cache, now, ticker_types, idx, all_stats,
                   exported, call, loaded, saved, dirty, computed, rankings,
                   window, first>>

\* lines 737-746: rank_results and export_to_csv for the next window
RankExport ==
    /\ pc = "rank"
    /\ Len(exported) < Len(Windows)
    /\ RankCall(Windows[Len(exported) + 1])
    /\ exported' = Append(exported, Windows[Len(exported) + 1])
    /\ outdir' = ExportToCsv(outdir, rankings', Windows[Len(exported) + 1])
    /\ UNCHANGED <<fetchVars, scanVars, persist, statsVars, file, cache, now,
                   ticker_types, idx, pc, call, loaded, saved, dirty, computed, tie,
                   first>>

\* lines 748-750: main returns
Finish ==
    /\ pc = "rank"
    /\ Len(exported) = Len(Windows)
    /\ pc' = "done"
    /\ UNCHANGED <<otherVars, statsVars, file, cache, now, ticker_types, idx, all_stats,
                   aggregated, exported, call, loaded, saved, dirty, computed, rankVars>>

Running == pc \in {"start", "loop", "batch_end", "aggregate"}

\* lines 753-757: the operator interrupts the run before the rankings are
\* made; the KeyboardInterrupt leaves main and is logged, nothing else is done
Interrupt ==
    /\ Running
    /\ pc' = "interrupted"
    /\ UNCHANGED <<otherVars, statsVars, file, cache, now, ticker_types, idx, all_stats,
                   aggregated, exported, call, loaded, saved, dirty, computed, rankVars>>

Next ==
    \/ Load
    \/ Process
    \/ BatchEndSave
    \/ BatchEndNoSave
    \/ FinalSave
    \/ Aggregate
    \/ RankExport
    \/ Finish
    \/ Interrupt

Spec == Init /\ [][Next]_vars

(***************************************************************************)
(* aggregate_results and rank_results called twice on one list of stats    *)
(***************************************************************************)
MaxStats == 3

HistoryFive == <<DayA, DayA, DayB, DayA, DayA>>

HistorySeven == <<DayB, DayB, DayA, DayB, DayA, DayB, DayB>>

HistoryCalm == <<DayA, DayA, DayA, DayB, DayA, DayA, DayA>>

\* what main may have collected for a ticker: stats of five or of seven days;
\* T3 is in no list of ticker_types, and one record has lost its ticker
RankInputs ==
    { ComputeIntradayStats(Frame(DailyBars(HistoryFive)), "T1"),
      ComputeIntradayStats(Frame(DailyBars(HistoryFive)), "T2"),
      ComputeIntradayStats(Frame(DailyBars(HistorySeven)), "T3"),
      ComputeIntradayStats(Frame(DailyBars(HistoryCalm)), "T1"),
      ComputeIntradayStats(Frame(DailyBars(HistoryFive)), ""),
      None }

RankLists == UNION {[1..n -> RankInputs] : n \in 0..MaxStats}

RankTickerTypes ==
    {[nasdaq |-> <<"T1", "T2">>, nyse |-> <<>>, etfs |-> e] :
        e \in {<<>>, <<"T1">>, <<"T2">>}}

InitRank ==
    /\ OtherIdle
    /\ StatsIdle
    /\ computed = StatsTable
    /\ file = Missing
    /\ cache = EmptyCache
    /\ now = StartTime
    /\ idx = 0
    /\ exported = <<>>
    /\ call = NoCall
    /\ loaded = [op |-> "none"]
    /\ saved = [op |-> "none"]
    /\ dirty = FALSE
    /\ aggregated = NoAggregate
    /\ rankings = NoRankings
    /\ window = "none"
    /\ pc = "rank_input"
    /\ all_stats \in RankLists
    /\ ticker_types \in RankTickerTypes
    /\ tie \in TieOrders
    /\ first = [k |-> "input", all_stats |-> all_stats,
                aggregated |-> NoAggregate, rankings |-> NoRankings]

AggregateFirst ==
    /\ pc = "rank_input"
    /\ aggregated' = AggregateResults(all_stats, ticker_types)
    /\ pc' = "rank_aggregated"
    /\ UNCHANGED <<otherVars, statsVars, file, cache, now, ticker_types, idx, all_stats,
                   exported, call, loaded, saved, dirty, computed, rankVars>>

RankFirst ==
    /\ pc = "rank_aggregated"
    /\ \E w \in WindowNames : RankCall(w)
    /\ pc' = "rank_ranked"
    /\ UNCHANGED <<otherVars, statsVars, file, cache, now, ticker_types, idx, exported,
                   call, loaded, saved, dirty, computed, tie, first>>

AggregateAgain ==
    /\ pc = "rank_ranked"
    /\ first' = [first EXCEPT !.k = "ranked", !.aggregated = aggregated,
                              !.rankings = rankings]
    /\ aggregated' = AggregateResults(all_stats, ticker_types)
    /\ pc' = "rank_again"
    /\ UNCHANGED <<otherVars, statsVars, file, cache, now, ticker_types, idx, all_stats,
                   exported, call, loaded, saved, dirty, computed, rankings,
                   window, tie>>

RankAgain ==
    /\ pc = "rank_again"
    /\ RankCall(window)
    /\ pc' = "rank_done"
    /\ UNCHANGED <<otherVars, statsVars, file, cache, now, ticker_types, idx, exported,
                   call, loaded, saved, dirty, computed, tie, first>>

NextRank ==
    \/ AggregateFirst
    \/ RankFirst
    \/ AggregateAgain
    \/ RankAgain

SpecRank == InitRank /\ [][NextRank]_vars

(***************************************************************************)
(* get_intraday_data called with every behaviour of the provider           *)
(***************************************************************************)
\* the analyzer's batch run and its engine are not running
AnalyzerIdle ==
    /\ StatsIdle
    /\ MainIdle
    /\ RankIdle
    /\ file = Missing
    /\ ticker_types = [nasdaq |-> <<>>, nyse |-> <<>>, etfs |-> <<>>]
    /\ pc = "idle"

InitFetch ==
    /\ AnalyzerIdle
    /\ ScanIdle
    /\ DiskIdle
    /\ provider \in Providers
    /\ fetch_call = NoFetch
    /\ fetch_task = NoTask

\* data = get_intraday_data(ticker, period="2mo")
FetchData ==
    /\ fetch_call = NoFetch
    /\ fetch_call' = GetIntradayData(provider)
    /\ UNCHANGED <<provider, fetch_task, scanVars, diskVars, statsVars, mainVars,
                   rankVars>>

NextFetch == FetchData

SpecFetch == InitFetch /\ [][NextFetch]_vars

(***************************************************************************)
(* The scanner's run loop: scan cycles of VolatilityScanner                *)
(***************************************************************************)
\* the scan cycles the run loop makes in the model
ScanNumbers == {1, 2}

MaxClock == 5

analyzerVars == <<statsVars, mainVars, rankVars, fetchVars, diskVars>>

\* os.getenv('TELEGRAM_BOT_TOKEN') and os.getenv('TELEGRAM_CHAT_ID'): set to
\* a non-empty value or not
CredentialSets == [token : BOOLEAN, chat_id : BOOLEAN]

\* what requests.post and raise_for_status do
Transports == {"ok", "raises"}

\* SendTelegramMessage looking at the token only
SendTelegramMessageTokenOnly(creds, transport) ==
    IF ~creds.token THEN FALSE
    ELSE IF transport = "raises" THEN FALSE
    ELSE TRUE

\* send_telegram_message(message): TRUE when the message was posted
SendTelegramMessage(creds, transport) ==
    IF ~creds.token \/ ~creds.chat_id THEN FALSE
    ELSE IF transport = "raises" THEN FALSE
    ELSE TRUE

InitScan ==
    /\ zscores = ZscoreTable
    /\ AnalyzerIdle
    /\ FetchIdle
    /\ DiskIdle
    /\ tickers \in ScanTickerLists
    /\ credentials \in CredentialSets
    /\ alert_history = [t \in Tickers |-> NoAlert]
    /\ scan_count = 0
    /\ alerts_sent = 0
    /\ errors = 0
    /\ results = <<>>
    /\ all_alerts = <<>>
    /\ delivered = <<>>
    /\ created = <<>>
    /\ handed = 0
    /\ clock = 0
    /\ scan_call = NoScanCall
    /\ spc = "wait"

\* lines 448-455: a scan cycle begins
ScanCycleStart ==
    /\ spc = "wait"
    /\ scan_count + 1 \in ScanNumbers
    /\ scan_count' = scan_count + 1
    /\ results' = [i \in 1..Len(tickers) |-> Pending]
    /\ all_alerts' = <<>>
    /\ handed' = 0
    /\ spc' = "batches"
    /\ UNCHANGED <<analyzerVars, tickers, alert_history, alerts_sent, delivered,
                   clock, scan_call, zscores, errors, credentials, created>>

\* BatchReached when all the tickers of the list are dispatched at once
BatchReachedAtOnce(i) == i \in 1..Len(tickers)

\* the tickers of the batches before the batch of ticker i are done
BatchReached(i) ==
    \A j \in 1..Len(tickers) :
        (j - 1) \div SCAN_BATCH_SIZE < (i - 1) \div SCAN_BATCH_SIZE =>
            results[j] # Pending

\* lines 405-408 and 355-403: one of the tasks of the batch runs
\* process_ticker for its ticker.  The tasks of a batch are gathered: a task
\* is suspended only while it waits to retry a fetch, so the tasks finish in
\* any order, and each runs from the fetched data to its return without
\* another task in between.  The provider returns one of the series.
ScanProcess ==
    /\ spc = "batches"
    /\ \E i \in 1..Len(tickers), name \in DOMAIN ScanSeries, lag \in 0..1 :
         /\ name \in SeriesOf(tickers[i])
         /\ results[i] = Pending
         /\ BatchReached(i)
         /\ clock + lag <= MaxClock
         /\ LET r == ScannerProcessTicker(alert_history, tickers[i], zscores[name],
                                          clock, lag)
            IN  /\ lag = 1 => r.ret # None
                /\ results' = [results EXCEPT ![i] = r.ret]
                /\ alert_history' = r.alert_history
                /\ clock' = r.clock
                /\ created' = IF r.ret # None THEN Append(created, r.ret) ELSE created
                /\ scan_call' = [k |-> "call", ticker |-> tickers[i],
                                 result |-> zscores[name], ret |-> r.ret,
                                 before |-> alert_history, after |-> r.alert_history,
                                 checked |-> clock]
    /\ UNCHANGED <<analyzerVars, tickers, scan_count, alerts_sent, all_alerts,
                   delivered, spc, zscores, errors, credentials, handed>>

\* lines 362-378 and 400-403: a statement of process_ticker's try block
\* raises before the cooldown is looked at; the except clause counts the
\* error and the task returns None
ScanProcessRaises ==
    /\ spc = "batches"
    /\ \E i \in 1..Len(tickers) :
         /\ results[i] = Pending
         /\ BatchReached(i)
         /\ results' = [results EXCEPT ![i] = None]
         /\ scan_call' = [k |-> "raised", ticker |-> tickers[i], ret |-> None,
                          before |-> alert_history, after |-> alert_history,
                          errors |-> errors]
    /\ errors' = errors + 1
    /\ UNCHANGED <<analyzerVars, tickers, alert_history, scan_count, alerts_sent,
                   all_alerts, delivered, clock, spc, zscores, credentials,
                   created, handed>>

\* lines 410-418, 463: the alerts of the cycle, in the order of the tickers
ScanCollect ==
    /\ spc = "batches"
    /\ \A i \in 1..Len(tickers) : results[i] # Pending
    /\ all_alerts' = SelectSeq(results, LAMBDA r : r # None)
    /\ scan_call' = NoScanCall
    /\ spc' = "send"
    /\ UNCHANGED <<analyzerVars, tickers, alert_history, scan_count, alerts_sent,
                   results, delivered, clock, zscores, errors, credentials,
                   created, handed>>

\* lines 470-471 and send_alert: the next alert is handed to send_alert,
\* which counts it when send_telegram_message has posted it
ScanSend ==
    /\ spc = "send"
    /\ all_alerts # <<>>
    /\ \E transport \in Transports :
         LET success == SendTelegramMessage(credentials, transport)
         IN  /\ alerts_sent' = IF success THEN alerts_sent + 1 ELSE alerts_sent
             /\ delivered' = IF success THEN Append(delivered, Head(all_alerts))
                             ELSE delivered
    /\ all_alerts' = Tail(all_alerts)
    /\ handed' = handed + 1
    /\ UNCHANGED <<analyzerVars, tickers, alert_history, scan_count, results,
                   clock, scan_call, spc, zscores, errors, credentials, created>>

\* lines 475-480: the old entries of alert_history are dropped
ScanCleanup ==
    /\ spc = "send"
    /\ all_alerts = <<>>
    /\ alert_history' = Pruned(alert_history, clock)
    /\ results' = <<>>
    /\ spc' = "sleep"
    /\ UNCHANGED <<analyzerVars, tickers, scan_count, alerts_sent,
                   all_alerts, delivered, clock, scan_call, zscores, errors,
                   credentials, created, handed>>

\* how long after a cycle the next one begins: on the same tick, a tick
\* later, or when the entries of alert_history have grown old
SleepTicks == {0, 1, (ALERT_COOLDOWN_HOURS + 1) * TicksPerHour}

\* line 497: await asyncio.sleep(SCAN_INTERVAL)
ScanSleep ==
    /\ spc = "sleep"
    /\ \E d \in SleepTicks :
         /\ clock + d <= MaxClock
         /\ clock' = clock + d
    /\ spc' = "wait"
    /\ UNCHANGED <<analyzerVars, tickers, alert_history, scan_count, alerts_sent,
                   results, all_alerts, delivered, scan_call, zscores, errors,
                   credentials, created, handed>>

NextScan ==
    \/ ScanCycleStart
    \/ ScanProcess
    \/ ScanProcessRaises
    \/ ScanCollect
    \/ ScanSend
    \/ ScanCleanup
    \/ ScanSleep

SpecScan == InitScan /\ [][NextScan]_vars

(***************************************************************************)
(* Claims about the batch run (specification Spec)                         *)
(***************************************************************************)
Ended == pc \in {"done", "crashed", "interrupted"}

Returned == call.outcome \in {"hit", "nodata", "stored"}

\* the entry the ticker of the last call had when the call was made
EntryBefore == call.before[call.ticker]

\* the age of that entry at the time of the call: now minus its timestamp,
\* or minus '2000-01-01' when it has none
AgeBefore ==
    call.start - (IF EntryBefore.timestamp.k = "iso" THEN EntryBefore.timestamp.t
                  ELSE DEFAULT_TIMESTAMP)

\* C1: a failure while processing a single ticker never aborts the run:
\* whatever the loaded cache holds for the ticker, process_ticker returns
\* instead of raising and main goes on to the final save, the aggregation
\* and the export.
C1_TickerFailureNeverAborts ==
    /\ call.outcome # "raised"
    /\ pc # "crashed"

\* C2: process_ticker returns the cached stats, without a fetch and without
\* changing the cache, if and only if the ticker has an entry whose age is
\* strictly below the expiry; with an age equal to or above the expiry, or
\* with no entry, a fetch is attempted.
C2_HitIffFresh ==
    Returned =>
        LET fresh == EntryBefore # Absent /\ AgeBefore < ExpiryTicks
        IN  /\ (call.outcome = "hit") <=> fresh
            /\ fresh => /\ call.ret = EntryBefore.stats
                        /\ ~call.fetch
                        /\ call.after = call.before
            /\ ~fresh => call.fetch

\* C2, its case: an entry whose age equals the expiry exactly was a miss
C2_Witness ==
    /\ Returned
    /\ EntryBefore # Absent
    /\ AgeBefore = ExpiryTicks
    /\ call.fetch

OthersUntouched == \A t \in Tickers \ {call.ticker} : call.after[t] = call.before[t]

\* the entry of the call's ticker holds the returned stats and a timestamp
\* taken during the call
StoredReturned ==
    /\ call.after[call.ticker].k = "entry"
    /\ call.after[call.ticker].stats = call.ret
    /\ call.after[call.ticker].timestamp.k = "iso"
    /\ call.after[call.ticker].timestamp.t >= call.start
    /\ call.after[call.ticker].timestamp.t <= call.end

\* C3 as stated: after every cache miss the entry of the ticker holds the
\* stats the call returned and a timestamp taken during the call, and no
\* other entry is changed.
C3_EveryMissStores ==
    (Returned /\ call.outcome # "hit") => (StoredReturned /\ OthersUntouched)

\* C3 as amended: after every cache miss whose fetch returned data the entry
\* of the ticker holds the stats the call returned and a timestamp taken
\* during the call, whatever entry the ticker had, and no other entry is
\* changed; after a miss whose fetch returned nothing the call has returned
\* None and the cache is as it was.
C3_MissWithDataStores ==
    /\ call.outcome = "stored" => (StoredReturned /\ OthersUntouched)
    /\ call.outcome = "nodata" => (IsNone(call.ret) /\ call.after = call.before)

\* C3, its case: an expired entry was overwritten by a miss with data
C3_Witness ==
    /\ call.outcome = "stored"
    /\ EntryBefore # Absent
    /\ call.after[call.ticker] # EntryBefore
    /\ ~IsNone(call.ret)

\* C4: however ticker processing ends, save_cache is called after the last
\* cache update of the run.
C4_FlushedAtRunEnd == Ended => ~dirty

\* C5: load_cache returns an empty cache for a missing or unreadable file,
\* save_cache never raises and leaves the in-memory cache as it was, and the
\* run is never aborted by either.
C5_PersistenceNeverFatal ==
    /\ loaded.op = "load_cache" =>
          /\ ~loaded.raised
          /\ loaded.file.k \in {"missing", "corrupt"} => loaded.after = EmptyCache
    /\ saved.op = "save_cache" =>
          /\ ~saved.raised
          /\ saved.after = saved.before
    /\ pc = "crashed" => call.outcome = "raised"

\* C5, its case: the file could not be read at the start, the final write
\* failed, and the run went on to its end
C5_Witness ==
    /\ loaded.op = "load_cache"
    /\ loaded.file = Corrupt
    /\ saved.op = "save_cache"
    /\ saved.io = "dump_failed"
    /\ saved.before # EmptyCache
    /\ pc = "done"

IsPrefix(xs, ys) == Len(xs) <= Len(ys) /\ xs = SubSeq(ys, 1, Len(xs))

\* C17: main passes every element of the universe list to process_ticker
\* once, in list order; it aggregates only after the last ticker and the
\* final save_cache; it then ranks and exports each of the six windows once,
\* in the order of the list; and a run that main has left, by its return or
\* by an exception, has done all of it.
C17_OrchestrationOrder ==
    /\ Returned => call.ticker = all_tickers[idx]
    /\ IsPrefix(exported, Windows)
    /\ pc \in {"rank", "done"} =>
          /\ idx = Len(all_tickers)
          /\ saved.op = "save_cache"
          /\ saved.kind = "final"
    /\ pc \in {"done", "crashed"} =>
          /\ idx = Len(all_tickers)
          /\ exported = Windows

(***************************************************************************)
(* Claims about the statistics engine (specification SpecStats)            *)
(***************************************************************************)
Computed == epc = "computed" /\ ~IsNone(data)

\* the daily rows of the input with their IntradayRange column
DailyRows == WithColumns(DailyData(data.bars))

\* how many daily rows have an IntradayRange that is not NaN
ValidDays ==
    Cardinality({i \in 1..Len(DailyRows) : ~IsNan(DailyRows[i].IntradayRange)})

\* how many daily rows have an open that is neither missing nor 0
DefinedDays ==
    Cardinality({i \in 1..Len(DailyRows) :
                    ~IsNan(DailyRows[i].Open) /\ DailyRows[i].Open # Zero})

WindowSize ==
    [w \in WindowNames |->
        CASE w = "today"         -> 1
          [] w = "last_3_days"   -> 3
          [] w = "last_7_days"   -> 7
          [] w = "last_30_days"  -> 30
          [] w = "last_3_months" -> 90
          [] w = "last_1_year"   -> 252]

Present(w) == result.k = "stats" /\ ~IsNone(result[w])

\* the ranges of the rows window w is made of
RangesOf(w) ==
    LET valid == SelectSeq(DailyRows, LAMBDA r : ~IsNan(r.IntradayRange))
    IN  Column(TailN(valid, WindowSize[w]), "IntradayRange")

AllEqualFinite(xs) == \A i \in 1..Len(xs) : IsFinite(xs[i]) /\ xs[i] = xs[1]

OnlyShortWindows ==
    /\ result.k = "stats"
    /\ Present("today")
    /\ Present("last_3_days")
    /\ \A w \in WindowNames \ {"today", "last_3_days"} : ~Present(w)

FloatFields ==
    {"avg_intraday_range", "std_intraday_range", "daily_std_dev",
     "median_intraday_range", "max_intraday_range", "min_intraday_range",
     "realized_volatility", "consistency_score", "std_dev_25th", "std_dev_50th",
     "std_dev_75th", "std_dev_90th", "std_dev_95th", "std_dev_99th",
     "min_range_pct", "max_range_pct", "range_spread_pct"}

\* C9: every float field of every window of every record is finite.
C9_EveryFieldFinite ==
    Computed =>
        \A w \in WindowNames :
            Present(w) => \A f \in FloatFields : IsFinite(result[w][f])

\* C10: no daily row whose open is 0 or missing is counted in total_days or
\* in the days_in_window of a window.
C10_UndefinedRowsDiscarded ==
    (Computed /\ result.k = "stats") =>
        /\ result.total_days = DefinedDays
        /\ \A w \in WindowNames :
              Present(w) => result[w].days_in_window <= DefinedDays

Ladder ==
    <<"std_dev_25th", "std_dev_50th", "std_dev_75th", "std_dev_90th",
      "std_dev_95th", "std_dev_99th">>

\* C11: in every window of every record the percentile ladder is
\* non-decreasing: std_dev_25th <= std_dev_50th <= std_dev_75th <=
\* std_dev_90th <= std_dev_95th <= std_dev_99th, as emitted, that is after
\* the replacement of NaN and Inf percentiles by 0.0.
C11_LadderNonDecreasing ==
    Computed =>
        \A w \in WindowNames :
            Present(w) =>
                \A i \in 1..(Len(Ladder) - 1) :
                    FLe(result[w][Ladder[i]], result[w][Ladder[i + 1]])

\* C12: in every record, every window that is present has days_in_window <=
\* total_days.
C12_WindowWithinTotal ==
    (Computed /\ result.k = "stats") =>
        \A w \in WindowNames :
            Present(w) => result[w].days_in_window <= result.total_days

\* C12, its case: a record of six rows, one of them with an open of 0, whose
\* three-day window has its three rows
C12_Witness ==
    /\ Computed
    /\ result.k = "stats"
    /\ result.total_days = 6
    /\ DefinedDays < 6
    /\ Present("last_3_days")
    /\ result.last_3_days.days_in_window = 3

(***************************************************************************)
(* Claims about aggregation and ranking (specification SpecRank)           *)
(***************************************************************************)
AggregatedOnce == pc \in {"rank_aggregated", "rank_ranked", "rank_again", "rank_done"}

Ranked == pc \in {"rank_ranked", "rank_done"}

\* the entries of a stats list that are not None and have a ticker
WithTicker(stats) == SelectSeq(stats, LAMBDA st : ~IsNone(st) /\ st.ticker # "")

IsEtf(st) == InList(st.ticker, ticker_types.etfs)

\* C13: aggregate_results partitions its input: 'all' holds, in input order,
\* the entries that are not None and have a ticker; 'etfs' holds those of
\* them whose ticker is in the ETF list and 'stocks' all the others, tickers
\* of no list included, both in input order; len(all) = len(stocks) +
\* len(etfs).
C13_AggregatePartitions ==
    AggregatedOnce =>
        /\ aggregated.all = WithTicker(all_stats)
        /\ aggregated.etfs = SelectSeq(WithTicker(all_stats), IsEtf)
        /\ aggregated.stocks = SelectSeq(WithTicker(all_stats), LAMBDA st : ~IsEtf(st))
        /\ Len(aggregated.all) = Len(aggregated.stocks) + Len(aggregated.etfs)

\* C13, its case: a list of a None entry, an ETF and a ticker of no list
C13_Witness ==
    /\ AggregatedOnce
    /\ Len(all_stats) = 3
    /\ \E i \in 1..3 : IsNone(all_stats[i])
    /\ Len(aggregated.etfs) = 1
    /\ Len(aggregated.stocks) = 1
    /\ aggregated.stocks[1].ticker = "T3"

TickerNames == {"T1", "T2", "T3", ""}

CountTicker(rows, t) == Cardinality({p \in 1..Len(rows) : rows[p].ticker = t})

\* the rows a ranking of the category is made from: the stats of the
\* category that have the window, for most_consistent those of them with a
\* finite consistency score
Eligible(category, rt) ==
    LET df == ValidStats(aggregated[category], window)
    IN  IF rt = "most_consistent"
        THEN SelectSeq(df, LAMBDA r : IsFinite(r.consistency_score))
        ELSE df

NonIncreasing(rows, col) ==
    \A p \in 1..(Len(rows) - 1) : FLe(KeyOf(rows[p + 1], col), KeyOf(rows[p], col))

\* C14: every ranking table of every category holds exactly the tickers of
\* the category whose stats have the window (for most_consistent: and a
\* finite consistency score), each as often as the category holds it, and its
\* rows are in non-increasing order of the ranking criterion.
C14_TablesCompleteAndSorted ==
    Ranked =>
        \A category \in DOMAIN rankings :
            rankings[category] # NoCategory =>
                \A rt \in RankingTypes :
                    /\ Len(rankings[category][rt]) = Len(Eligible(category, rt))
                    /\ \A t \in TickerNames :
                          CountTicker(rankings[category][rt], t) =
                          CountTicker(Eligible(category, rt), t)
                    /\ NonIncreasing(rankings[category][rt], Criterion[rt])

\* C14, its case: of three stats two have the seven-day window, and the sort
\* has moved the one with the greater average range in front of the other
C14_Witness ==
    /\ Ranked
    /\ window = "last_7_days"
    /\ Len(aggregated.all) = 3
    /\ rankings.all # NoCategory
    /\ Len(rankings.all.highest_avg_range) = 2
    /\ rankings.all.highest_avg_range[1].ticker = "T3"
    /\ aggregated.all[1].ticker = "T1"
    /\ HasWindow(aggregated.all[1], "last_7_days")

\* the rows of a table and the rows it was made from, in input order
SameKey(rows, col, key) == SelectSeq(rows, LAMBDA r : KeyOf(r, col) = key)

\* C15: in every ranking table the rows of equal criterion value are in the
\* order their stats have in the aggregated list.
C15_TiesKeepInputOrder ==
    Ranked =>
        \A category \in DOMAIN rankings :
            rankings[category] # NoCategory =>
                \A rt \in RankingTypes :
                    \A p \in 1..Len(rankings[category][rt]) :
                        LET key == KeyOf(rankings[category][rt][p], Criterion[rt])
                        IN  SameKey(rankings[category][rt], Criterion[rt], key) =
                            SameKey(Project(Eligible(category, rt), RankingColumns[rt]),
                                    Criterion[rt], key)

HasRows(response) == response.k = "frame" /\ response.bars # <<>>

\* the request raised or was answered with a DataFrame without rows
NoRows(response) ==
    response.k = "raises" \/ (response.k = "frame" /\ response.bars = <<>>)

Complete(response) == REQUIRED_COLS \subseteq response.columns

\* C18: get_intraday_data never raises; it requests 5-minute bars first and
\* daily bars only, and always, when the 5-minute request raised or returned
\* no rows; it returns the first result that has rows when that result has
\* the columns Open, High, Low and Close, and None in every other case: both
\* results without rows, a required column missing, any other error.
C18_FetchFallsBackAndNeverRaises ==
    fetch_call.k = "fetched" =>
        /\ ~fetch_call.raised
        /\ IsPrefix(fetch_call.requests, <<"5m", "1d">>)
        /\ provider.ticker = "ok" =>
              /\ Len(fetch_call.requests) >= 1
              /\ Len(fetch_call.requests) = 2 <=> NoRows(provider.intraday)
        /\ fetch_call.ret =
              (IF provider.ticker = "ok" /\ HasRows(provider.intraday)
                    /\ Complete(provider.intraday)
               THEN provider.intraday
               ELSE IF provider.ticker = "ok" /\ NoRows(provider.intraday)
                    /\ HasRows(provider.daily) /\ Complete(provider.daily)
               THEN provider.daily
               ELSE None)

\* C18, its case: the 5-minute request raised and the daily bars were
\* returned
C18_Witness ==
    /\ fetch_call.k = "fetched"
    /\ provider.intraday = Raises
    /\ fetch_call.requests = <<"5m", "1d">>
    /\ fetch_call.ret = provider.daily
    /\ HasRows(fetch_call.ret)

(***************************************************************************)
(* One call of the scanner's get_intraday_data                             *)
(***************************************************************************)
InitRetry ==
    /\ AnalyzerIdle
    /\ ScanIdle
    /\ DiskIdle
    /\ provider = [ticker |-> "ok", intraday |-> EmptyDf, daily |-> EmptyDf]
    /\ fetch_call = NoFetch
    /\ \E t \in Tickers :
         fetch_task = [pos |-> "try", ticker |-> t, attempt |-> 0, tried |-> <<>>,
                       slept |-> <<>>, ret |-> None]

\* lines 204-224: one attempt; an exception of the provider is caught, and
\* the task either goes to sleep or, after the last attempt, returns None
FetchAttempt ==
    /\ fetch_task.pos = "try"
    /\ \E response \in ScanResponses :
         LET out   == TryOnce(response)
             tried == Append(fetch_task.tried,
                             IF response.k = "raises" THEN response ELSE [k |-> "frame"])
         IN  fetch_task' =
                 IF out.k = "return"
                 THEN [fetch_task EXCEPT !.pos = "done", !.tried = tried, !.ret = out.ret]
                 ELSE IF ShouldRetry(fetch_task.attempt)
                 THEN [fetch_task EXCEPT !.pos = "sleep", !.tried = tried,
                                         !.slept = Append(@, Backoff(fetch_task.attempt))]
                 ELSE [fetch_task EXCEPT !.pos = "done", !.tried = tried, !.ret = None]
    /\ UNCHANGED <<provider, fetch_call, scanVars, diskVars, statsVars, mainVars,
                   rankVars>>

\* line 222-223: asyncio.sleep returns and the loop goes to its next
\* attempt; after the last one line 226 returns None
FetchWake ==
    /\ fetch_task.pos = "sleep"
    /\ fetch_task' =
           IF fetch_task.attempt + 1 < MAX_RETRIES
           THEN [fetch_task EXCEPT !.pos = "try", !.attempt = @ + 1]
           ELSE [fetch_task EXCEPT !.pos = "done", !.ret = None]
    /\ UNCHANGED <<provider, fetch_call, scanVars, diskVars, statsVars, mainVars,
                   rankVars>>

NextRetry == FetchAttempt \/ FetchWake

SpecRetry == InitRetry /\ [][NextRetry]_vars

\* asyncio.sleep returns after its delay and an attempt ends, with data or
\* an exception
SpecRetryFair == SpecRetry /\ WF_vars(FetchAttempt) /\ WF_vars(FetchWake)

(***************************************************************************)
(* Claims about the live scanner (specification SpecScan)                  *)
(***************************************************************************)
Scanned == scan_call.k = "call" /\ ~IsNone(scan_call.result)

\* the square of the threshold, to compare with the squares of Z-scores
ThresholdSquare == Fin(Z_SCORE_THRESHOLD * Z_SCORE_THRESHOLD)

AtThreshold == Scanned /\ FAbs(scan_call.result.zscore) = ThresholdSquare

\* |Z| is above the threshold
Triggered == Scanned /\ FGt(FAbs(scan_call.result.zscore), ThresholdSquare)

\* C19: process_ticker returns an alert only for a Z-score whose absolute
\* value is strictly above the threshold; with an absolute value equal to
\* the threshold (2.0 or -2.0) it returns no alert and leaves alert_history
\* as it was.
C19_NoAlertAtThreshold ==
    /\ (scan_call.k = "call" /\ scan_call.ret # None) => Triggered
    /\ AtThreshold =>
          /\ scan_call.ret = None
          /\ scan_call.after = scan_call.before

\* C19, its case: a Z-score of exactly 2.0 for a ticker that has never
\* alerted
C19_Witness ==
    /\ AtThreshold
    /\ scan_call.result.zscore = ThresholdSquare
    /\ scan_call.before[scan_call.ticker] = NoAlert
    /\ scan_call.ret = None

\* the trigger comes less than the cooldown after the ticker's last alert
WithinCooldown ==
    /\ Triggered
    /\ scan_call.before[scan_call.ticker] # NoAlert
    /\ scan_call.checked - scan_call.before[scan_call.ticker].t < CooldownTicks

Distance(a, b) == IF a < b THEN b - a ELSE a - b

\* C20: a trigger that comes less than the cooldown after the ticker's last
\* alert returns no alert and leaves the ticker's time of last alert, and all
\* of alert_history, as the first alert set it; a trigger outside the
\* cooldown returns an alert and sets the time; so no two alerts delivered
\* for one ticker are less than the cooldown apart, and the time of last
\* alert is kept as long as the cooldown of a delivered alert lasts.
C20_CooldownSuppressesRepeat ==
    /\ WithinCooldown =>
          /\ scan_call.ret = None
          /\ scan_call.after = scan_call.before
    /\ (Triggered /\ ~WithinCooldown) =>
          /\ scan_call.ret # None
          /\ scan_call.ret.timestamp = scan_call.checked
          /\ scan_call.after[scan_call.ticker] # NoAlert
          /\ scan_call.after[scan_call.ticker].t >= scan_call.checked
    /\ \A i, j \in 1..Len(delivered) :
          (i # j /\ delivered[i].ticker = delivered[j].ticker) =>
              Distance(delivered[i].timestamp, delivered[j].timestamp) >= CooldownTicks
    /\ \A i \in 1..Len(delivered) :
          clock - delivered[i].timestamp < CooldownTicks =>
              alert_history[delivered[i].ticker] # NoAlert

\* C20, its case: the first alert of the ticker was delivered, and a second
\* trigger at a later time within the cooldown was suppressed
C20_Witness ==
    /\ WithinCooldown
    /\ scan_call.ret = None
    /\ scan_call.checked > scan_call.before[scan_call.ticker].t
    /\ \E i \in 1..Len(delivered) :
          /\ delivered[i].ticker = scan_call.ticker
          /\ delivered[i].timestamp = scan_call.before[scan_call.ticker].t

\* the alerts among what the units of the cycle returned, in ticker order
AlertsOf(rs) == SelectSeq(rs, LAMBDA r : r # None /\ r # Pending)

LastOf(xs, n) == {xs[j] : j \in (Len(xs) - n + 1)..Len(xs)}

Range(xs) == {xs[j] : j \in 1..Len(xs)}

BatchOf(i) == (i - 1) \div SCAN_BATCH_SIZE

\* C21: alerts are sent, and the cycle ends, only when every unit of every
\* batch of the cycle has resolved; a unit of a batch starts only when the
\* batches before it have resolved; a unit that raises is counted in errors
\* and returns None, and the alerts the other units returned are exactly
\* those collected and passed to send_alert, in ticker order.
C21_CycleWaitsForEveryUnit ==
    /\ spc = "send" =>
          /\ Len(results) = Len(tickers)
          /\ \A i \in 1..Len(results) : results[i] # Pending
          /\ handed <= Len(AlertsOf(results))
          /\ all_alerts = SubSeq(AlertsOf(results), handed + 1, Len(AlertsOf(results)))
    /\ spc = "batches" =>
          /\ handed = 0
          /\ all_alerts = <<>>
          /\ \A i, j \in 1..Len(results) :
                (BatchOf(j) < BatchOf(i) /\ results[i] # Pending) => results[j] # Pending
    /\ spc \in {"batches", "send"} =>
          /\ Len(AlertsOf(results)) <= Len(created)
          /\ Range(AlertsOf(results)) = LastOf(created, Len(AlertsOf(results)))
    /\ spc \in {"sleep", "wait"} => all_alerts = <<>>
    /\ scan_call.k = "raised" =>
          /\ errors = scan_call.errors + 1
          /\ scan_call.ret = None
          /\ scan_call.after = scan_call.before

\* C21, its case: in a cycle of two batches a unit of the first batch has
\* raised, another unit of the cycle has returned an alert, and that alert
\* has been passed to send_alert
C21_Witness ==
    /\ spc = "send"
    /\ Len(tickers) > SCAN_BATCH_SIZE
    /\ scan_count = 1
    /\ errors > 0
    /\ results[1] = None
    /\ \E i \in 1..Len(results) : results[i] # None
    /\ handed = Len(AlertsOf(results))
    /\ handed > 0

\* cooldown + buffer: 1 hour + 1 hour
PruneTicks == (1 + 1) * TicksPerHour

\* the step of scan_cycle that prunes alert_history
CleanupStep == spc = "send" /\ spc' = "sleep"

Age(entry) == clock - entry.t

\* C22, as amended: the cleanup of a scan cycle removes exactly the entries
\* that are cooldown + buffer old or older (an entry exactly that old is
\* removed too) and leaves the others as they are, so after it no entry is
\* that old, and no entry whose cooldown still runs is removed.
C22_PruneRemovesOldOnly ==
    [][CleanupStep =>
          \A t \in Tickers :
             /\ (alert_history[t] # NoAlert /\ Age(alert_history[t]) >= PruneTicks)
                    => alert_history'[t] = NoAlert
             /\ (alert_history[t] # NoAlert /\ Age(alert_history[t]) < PruneTicks)
                    => alert_history'[t] = alert_history[t]
             /\ alert_history[t] = NoAlert => alert_history'[t] = NoAlert
             /\ (alert_history[t] # NoAlert /\ Age(alert_history[t]) < 1 * TicksPerHour)
                    => alert_history'[t] = alert_history[t]]_vars

\* C22, its case: the cycle has ended, the entry of a ticker that alerted
\* has been removed and the entry of another ticker has been kept
C22_Witness ==
    /\ spc = "sleep"
    /\ \E i \in 1..Len(created) : alert_history[created[i].ticker] = NoAlert
    /\ \E t \in Tickers : alert_history[t] # NoAlert

\* C22 as stated: the cleanup removes only entries older than cooldown +
\* buffer
C22_RemovesOnlyOlder ==
    [][CleanupStep =>
          \A t \in Tickers :
             (alert_history[t] # NoAlert /\ alert_history'[t] = NoAlert)
                 => Age(alert_history[t]) > PruneTicks]_vars

CredentialMissing == ~credentials.token \/ ~credentials.chat_id

\* C23: with the bot token or the chat id missing no alert is delivered and
\* alerts_sent stays 0, while every alert of a cycle is still passed to
\* send_alert, which returns, and the cycle goes on to its cleanup and the
\* loop to its next cycle: the scanner is never stuck with alerts unsent.
C23_MissingCredentialsDeliverNothing ==
    CredentialMissing =>
        /\ delivered = <<>>
        /\ alerts_sent = 0
        /\ (spc = "send" /\ all_alerts # <<>>) => ENABLED ScanSend
        /\ (spc = "send" /\ all_alerts = <<>>) => ENABLED ScanCleanup
        /\ spc \in {"sleep", "wait"} => (handed = 0 \/ all_alerts = <<>>)

\* C23, its case: only the chat id is missing, an alert of the first cycle
\* was passed to send_alert, and the second cycle is running
C23_Witness ==
    /\ credentials.token /\ ~credentials.chat_id
    /\ scan_count = 2
    /\ spc = "batches"
    /\ created # <<>>
    /\ delivered = <<>>

\* C28: whatever the order in which the units of a batch run, also with a
\* ticker listed twice, two alerts created for one ticker are at least the
\* cooldown apart, every alert created has left its time in alert_history
\* (until the cleanup removes it as old), and every unit that raised has added
\* one to errors, which never decreases.
C28_NoLostUpdateInBatch ==
    /\ \A i, j \in 1..Len(created) :
          (i < j /\ created[i].ticker = created[j].ticker) =>
              created[j].timestamp - created[i].timestamp >= 1 * TicksPerHour
    /\ \A i \in 1..Len(created) :
          clock - created[i].timestamp < PruneTicks =>
              /\ alert_history[created[i].ticker] # NoAlert
              /\ alert_history[created[i].ticker].t >= created[i].timestamp
    /\ scan_call.k = "raised" => errors = scan_call.errors + 1
    /\ errors <= scan_count * Len(tickers)

\* C28, its case: the ticker is listed twice in one batch; its first unit
\* returned an alert, its second unit found a trigger too and returned None,
\* and the third unit of the list raised
C28_Witness ==
    /\ spc = "send"
    /\ Len(tickers) = 3
    /\ tickers[1] = tickers[2]
    /\ scan_count = 1
    /\ Len(AlertsOf(results)) = 1
    /\ Len(created) = 1
    /\ created[1].ticker = tickers[1]
    /\ errors = 1

\* C29: alert_history gets the ticker's entry when the alert is created,
\* whatever happens to its delivery: while the cooldown of a created alert
\* runs the entry is there and a further trigger of the ticker returns no
\* alert (the entry is the time read just after the alert's own timestamp,
\* at most a tick later); an alert is passed to send_alert once, in the cycle that created
\* it; alerts_sent is the number of alerts delivered and at most the number
\* created.
C29_CooldownStartsAtCreation ==
    /\ alerts_sent = Len(delivered)
    /\ alerts_sent <= Len(created)
    /\ \A i \in 1..Len(delivered) : delivered[i] \in Range(created)
    /\ \A i, j \in 1..Len(delivered) : i # j => delivered[i] # delivered[j]
    /\ \A i \in 1..Len(created) :
          clock - created[i].timestamp < 1 * TicksPerHour =>
              alert_history[created[i].ticker] # NoAlert
    /\ (Triggered /\ scan_call.ret = None) =>
          /\ scan_call.before[scan_call.ticker] # NoAlert
          /\ scan_call.checked - scan_call.before[scan_call.ticker].t < 1 * TicksPerHour
          /\ \E i \in 1..Len(created) :
                /\ created[i].ticker = scan_call.ticker
                /\ created[i].timestamp <= scan_call.before[scan_call.ticker].t
                /\ scan_call.before[scan_call.ticker].t <= created[i].timestamp + 1
    /\ (Triggered /\ scan_call.ret # None) =>
          \A i \in 1..(Len(created) - 1) :
             created[i].ticker = scan_call.ticker =>
                 scan_call.checked - created[i].timestamp >= 1 * TicksPerHour
    /\ spc = "send" =>
          /\ Len(all_alerts) + handed = Len(AlertsOf(results))
          /\ Range(all_alerts) \subseteq LastOf(created, Len(AlertsOf(results)))

\* C29, its case: with both credentials set the alert of the first cycle was
\* passed to send_alert and not delivered, and in the second cycle a trigger
\* of the same ticker within the cooldown returned no alert
C29_Witness ==
    /\ credentials.token /\ credentials.chat_id
    /\ scan_count = 2
    /\ Len(created) = 1
    /\ delivered = <<>>
    /\ alerts_sent = 0
    /\ Triggered
    /\ scan_call.ticker = created[1].ticker
    /\ scan_call.ret = None
    /\ scan_call.checked > created[1].timestamp

(***************************************************************************)
(* Claims about the scanner's fetch (specification SpecRetryFair)          *)
(***************************************************************************)
FetchDone == fetch_task.pos = "done"

AllRaised(tried) == \A i \in 1..Len(tried) : tried[i].k = "raises"

\* C25: the fetch makes at most 3 attempts, a new one only after a raised
\* one; it sleeps 2 seconds after the first failed attempt and 4 after the
\* second, and not after the third; what it returns is data or None, None
\* when the last attempt raised; no exception leaves it, and it always
\* comes to its return.
C25_FetchRetriesBoundedAndEnds ==
    /\ [](/\ fetch_task.pos \in {"try", "sleep", "done"}
          /\ Len(fetch_task.tried) <= 3
          /\ \A i \in 1..(Len(fetch_task.tried) - 1) : fetch_task.tried[i].k = "raises"
          /\ Len(fetch_task.slept) <= 2
          /\ \A i \in 1..Len(fetch_task.slept) : fetch_task.slept[i] = 2 * i
          /\ fetch_task.pos = "sleep" => Len(fetch_task.slept) = Len(fetch_task.tried)
          /\ fetch_task.pos = "try" => Len(fetch_task.slept) = Len(fetch_task.tried)
          /\ FetchDone =>
                /\ Len(fetch_task.tried) >= 1
                /\ Len(fetch_task.slept) = Len(fetch_task.tried) - 1
                /\ AllRaised(fetch_task.tried) =>
                      (Len(fetch_task.tried) = 3 /\ fetch_task.ret = None)
                /\ fetch_task.ret # None =>
                      (fetch_task.ret.k = "frame" /\ "Close" \in DOMAIN fetch_task.ret
                       /\ fetch_task.ret.Close # <<>>))
    /\ <>FetchDone

\* C25, its case: three attempts raised, the fetch slept 2 and 4 seconds
\* and returned None
C25_Witness ==
    /\ FetchDone
    /\ Len(fetch_task.tried) = 3
    /\ AllRaised(fetch_task.tried)
    /\ fetch_task.slept = <<2, 4>>
    /\ fetch_task.ret = None

(***************************************************************************)
(* The cache file format.  A Python value is carried with its type: the    *)
(* engine's records hold numpy scalars next to Python numbers, and what    *)
(* json.dump writes for a value depends on its type.                       *)
(***************************************************************************)
PyNone == [ty |-> "NoneType"]

PyStr(s) == [ty |-> "str", v |-> s]

PyInt(n) == [ty |-> "int", v |-> n]

PyFloat(x) == [ty |-> "float", v |-> x]

NpInt64(n) == [ty |-> "np.int64", v |-> n]

NpFloat64(x) == [ty |-> "np.float64", v |-> x]

PyDict(items) == [ty |-> "dict", v |-> items]

\* lines 378-380: np.sum(ranges > threshold) is a numpy integer
NumpyIntFields == {"swing_2pct_days", "swing_3pct_days"}

\* lines 389-390, 410: int(...) and len(...) are Python integers
IntFields == {"extreme_move_days", "ultra_extreme_move_days", "days_in_window"}

\* lines 324-329: float(np.percentile(...)) is a Python float
LadderFields ==
    {"std_dev_25th", "std_dev_50th", "std_dev_75th", "std_dev_90th",
     "std_dev_95th", "std_dev_99th"}

WindowFields == FloatFields \cup NumpyIntFields \cup IntFields

\* lines 398-413: the dict _compute_window_stats returns.  The values of
\* np.mean, np.std, np.median, np.max and np.min are numpy floats (a value
\* replaced by 0.0 is a Python float, which json.dump and
\* _convert_numpy_types treat the same).
WindowDict(ws) ==
    IF ws = None THEN PyNone
    ELSE PyDict([f \in WindowFields |->
                    IF f \in NumpyIntFields THEN NpInt64(ws[f])
                    ELSE IF f \in IntFields THEN PyInt(ws[f])
                    ELSE IF f \in LadderFields THEN PyFloat(ws[f])
                    ELSE NpFloat64(ws[f])])

\* lines 268-278: the dict compute_intraday_stats returns, or None
StatsDict(stats) ==
    IF stats = None THEN PyNone
    ELSE PyDict([f \in {"ticker", "total_days"} \cup WindowNames |->
                    IF f = "ticker" THEN PyStr(stats.ticker)
                    ELSE IF f = "total_days" THEN PyInt(stats.total_days)
                    ELSE WindowDict(stats[f])])

\* lines 446-450: cache[ticker] = {'timestamp': ..., 'stats': stats}
EntryDict(e) ==
    PyDict([f \in {"timestamp", "stats"} |->
               IF f = "timestamp" THEN PyStr(e.timestamp) ELSE StatsDict(e.stats)])

\* the cache as the dict the run holds in memory
CacheDict(c) ==
    PyDict([t \in {u \in Tickers : c[u] # Absent} |-> EntryDict(c[t])])

RECURSIVE ConvertNumpyTypes(_)
\* lines 670-683 (no value of the cache is a list or a tuple)
ConvertNumpyTypes(obj) ==
    IF obj.ty = "dict"
    THEN PyDict([k \in DOMAIN obj.v |-> ConvertNumpyTypes(obj.v[k])])
    ELSE IF obj.ty = "np.int64" THEN PyInt(obj.v)
    ELSE IF obj.ty = "np.float64" THEN PyFloat(obj.v)
    ELSE obj

\* lines 649-664: cache_serializable
CacheSerializable(c) ==
    PyDict([key \in DOMAIN c.v |->
        LET value == c.v[key]
        IN  IF value.ty = "dict"
            THEN PyDict([k \in DOMAIN value.v |->
                    LET v == value.v[k]
                    IN  IF v.ty = "np.int64" THEN PyInt(v.v)
                        ELSE IF v.ty = "np.float64" THEN PyFloat(v.v)
                        ELSE IF v.ty = "dict" THEN ConvertNumpyTypes(v)
                        ELSE v])
            ELSE value])

\* JSON text: null, a string, a number written as an integer or as a float
\* literal, the tokens NaN, Infinity and -Infinity (which are no JSON), an
\* object
JNull == [j |-> "null"]

JString(s) == [j |-> "string", v |-> s]

JNumber(lit, x) == [j |-> "number", lit |-> lit, v |-> x]

JToken(name) == [j |-> "token", v |-> name]

JObject(members) == [j |-> "object", v |-> members]

\* str(v) of a value json has no encoding for
Str(obj) == [k |-> "str", of |-> obj.v]

\* float.__repr__: the shortest literal that reads back as the same float;
\* with allow_nan left at its default, NaN and the infinities are written
\* as the tokens NaN, Infinity, -Infinity
FloatRepr(x) ==
    IF IsNan(x) THEN JToken("NaN")
    ELSE IF IsInf(x) THEN (IF x = PInf THEN JToken("Infinity") ELSE JToken("-Infinity"))
    ELSE JNumber("float", x)

RECURSIVE JsonDump(_)
\* line 664: json.dump(cache_serializable, f, indent=2, default=str).  A
\* numpy float is a float for the encoder; a numpy integer is no int and
\* goes through default
JsonDump(obj) ==
    IF obj.ty = "dict" THEN JObject([k \in DOMAIN obj.v |-> JsonDump(obj.v[k])])
    ELSE IF obj.ty = "NoneType" THEN JNull
    ELSE IF obj.ty = "str" THEN JString(obj.v)
    ELSE IF obj.ty = "int" THEN JNumber("int", obj.v)
    ELSE IF obj.ty \in {"float", "np.float64"} THEN FloatRepr(obj.v)
    ELSE JString(Str(obj))

RECURSIVE JsonLoad(_)
\* line 639: json.load(f)
JsonLoad(text) ==
    IF text.j = "object" THEN PyDict([k \in DOMAIN text.v |-> JsonLoad(text.v[k])])
    ELSE IF text.j = "null" THEN PyNone
    ELSE IF text.j = "string" THEN PyStr(text.v)
    ELSE IF text.j = "number"
         THEN (IF text.lit = "int" THEN PyInt(text.v) ELSE PyFloat(text.v))
    ELSE IF text.v = "NaN" THEN PyFloat(NaN)
    ELSE IF text.v = "Infinity" THEN PyFloat(PInf)
    ELSE PyFloat(NInf)

\* lines 645-667 on the typed cache
SaveCacheText(c, f, io) ==
    IF io = "ok" THEN Json(JsonDump(CacheSerializable(c)))
    ELSE IF io = "open_failed" THEN f
    ELSE Corrupt

\* lines 634-642 on the text of the file
LoadCacheText(f) == IF f.k = "json" THEN JsonLoad(f.v) ELSE PyDict(<<>>)

(***************************************************************************)
(* A cache of engine results saved and loaded again                        *)
(***************************************************************************)
DayZeroOpen == [Open |-> Fin(0), High |-> Fin(101), Low |-> Fin(100), Close |-> Fin(100)]

HistoryZeroOpen == <<DayA, DayA, DayB, DayZeroOpen, DayA, DayA>>

CachedHistories == {<<>>, HistoryFive, HistorySeven, HistoryCalm, HistoryZeroOpen}

\* what process_ticker stores for a ticker: the engine's result for a
\* history, under the time of the call
CachedEntries(t) ==
    {Entry(Iso(ts), ComputeIntradayStats(Frame(DailyBars(h)), t)) :
        ts \in {StartTime - 1, StartTime}, h \in CachedHistories}

MemoryCaches ==
    {CacheDict(c) : c \in
        {f \in [Tickers -> {Absent} \cup UNION {CachedEntries(t) : t \in Tickers}] :
            \A t \in Tickers : f[t] = Absent \/ f[t] \in CachedEntries(t)}}

InitCache ==
    /\ AnalyzerIdle
    /\ FetchIdle
    /\ ScanIdle
    /\ outdir = EmptyDir
    /\ \E c \in MemoryCaches :
         persist = [pos |-> "memory", cache |-> c, file |-> Missing, io |-> "none",
                    loaded |-> PyNone]

\* save_cache(cache)
PersistSave ==
    /\ persist.pos = "memory"
    /\ \E io \in IoOutcomes :
         persist' = [persist EXCEPT !.pos = "saved", !.io = io,
                                    !.file = SaveCacheText(persist.cache, persist.file, io)]
    /\ UNCHANGED <<statsVars, mainVars, rankVars, fetchVars, scanVars, outdir>>

\* load_cache()
PersistLoad ==
    /\ persist.pos = "saved"
    /\ persist' = [persist EXCEPT !.pos = "loaded",
                                  !.loaded = LoadCacheText(persist.file)]
    /\ UNCHANGED <<statsVars, mainVars, rankVars, fetchVars, scanVars, outdir>>

NextCache == PersistSave \/ PersistLoad

SpecCache == InitCache /\ [][NextCache]_vars

(***************************************************************************)
(* Claims about the cache file (specification SpecCache)                   *)
(***************************************************************************)
Reloaded == persist.pos = "loaded" /\ persist.io = "ok"

\* the value read back is a JSON number, finite, of the same kind and value
\* as the value that was in memory
SameNumber(before, after) ==
    IF before.ty \in {"int", "np.int64"}
    THEN after.ty = "int" /\ after.v = before.v
    ELSE after.ty = "float" /\ IsFinite(after.v) /\ after.v = before.v

SameKeys(before, after) == after.ty = "dict" /\ DOMAIN after.v = DOMAIN before.v

SameWindow(before, after) ==
    IF before.ty = "NoneType" THEN after.ty = "NoneType"
    ELSE /\ SameKeys(before, after)
         /\ \A f \in DOMAIN before.v : SameNumber(before.v[f], after.v[f])

SameStats(before, after) ==
    IF before.ty = "NoneType" THEN after.ty = "NoneType"
    ELSE /\ SameKeys(before, after)
         /\ after.v["ticker"] = before.v["ticker"]
         /\ SameNumber(before.v["total_days"], after.v["total_days"])
         /\ \A w \in WindowNames : SameWindow(before.v[w], after.v[w])

\* C24: save_cache followed by load_cache gives back, for every ticker of
\* the cache, the same timestamp string and, for every window, the same
\* field names with the same numeric values, each a finite JSON number: no
\* value has become a string or null, none is NaN or an infinity.
C24_CacheRoundTrip ==
    Reloaded =>
        /\ SameKeys(persist.cache, persist.loaded)
        /\ \A t \in DOMAIN persist.cache.v :
              /\ SameKeys(persist.cache.v[t], persist.loaded.v[t])
              /\ persist.loaded.v[t].v["timestamp"] = persist.cache.v[t].v["timestamp"]
              /\ SameStats(persist.cache.v[t].v["stats"], persist.loaded.v[t].v["stats"])

(***************************************************************************)
(* Two runs of main, one after the other, from the aggregation on: each    *)
(* run ranks and exports what it has collected into the same output        *)
(* directory                                                               *)
(***************************************************************************)
FiveDays == Frame(DailyBars(<<DayA, DayB, DayA, DayB, DayB>>))

\* lines 712-716: what a run may have collected from the universe T1, T2:
\* the stats of the tickers whose fetch gave five days, the others gave
\* nothing
Collected(table) ==
    {<<>>, <<table["T1"][FiveDays]>>, <<table["T2"][FiveDays]>>,
     <<table["T1"][FiveDays], table["T2"][FiveDays]>>}

InitExport ==
    /\ OtherIdle
    /\ StatsIdle
    /\ RankIdle
    /\ computed = StatsTable
    /\ file = Missing
    /\ cache = EmptyCache
    /\ now = StartTime
    /\ idx = 0
    /\ exported = <<>>
    /\ call = NoCall
    /\ loaded = [op |-> "none"]
    /\ saved = [op |-> "none"]
    /\ dirty = FALSE
    /\ aggregated = NoAggregate
    /\ pc = "aggregate"
    /\ all_stats \in Collected(computed)
    /\ ticker_types \in RankTickerTypes

\* main is started again; the output directory is as the earlier run left it
RunAgain ==
    /\ pc = "done"
    /\ first = NoFirst
    /\ first' = [k |-> "earlier", outdir |-> outdir]
    /\ all_stats' \in Collected(computed)
    /\ aggregated' = NoAggregate
    /\ exported' = <<>>
    /\ rankings' = NoRankings
    /\ window' = "none"
    /\ pc' = "aggregate"
    /\ UNCHANGED <<otherVars, statsVars, file, cache, now, ticker_types, idx, call,
                   loaded, saved, dirty, computed, tie>>

NextExport ==
    \/ Aggregate
    \/ RankExport
    \/ Finish
    \/ RunAgain

SpecExport == InitExport /\ [][NextExport]_vars

(***************************************************************************)
(* Claims about the exported files (specification SpecExport)              *)
(***************************************************************************)
RunDone == pc = "done"

\* the table this run has computed for the file, NoFile where the category
\* has no valid stats for the window or the table is empty
TableOf(name) == Written(RankResults(aggregated, name.window, tie), name.window, name)

\* C26: after a run of main, every ranking file that exists in the output
\* directory holds the table this run computed for its category, ranking
\* type and window; no file of an earlier run is left where this run has
\* no table.
C26_FilesAreOfThisRun ==
    RunDone => \A name \in DOMAIN outdir : outdir[name] = TableOf(name)

(***************************************************************************)
(* Claims about the tables of a run (specification Spec)                   *)
(***************************************************************************)
\* the tickers of the rows of a table, in row order
TickersOf(df) == [p \in 1..Len(df) |-> df[p].ticker]

NoRepeat(xs) == \A i, j \in 1..Len(xs) : xs[i] = xs[j] => i = j

TablesMade == pc \in {"rank", "done"} /\ exported # <<>>

\* C27: in a run of main every ranking table holds each ticker at most
\* once, and every ticker that was aggregated is in exactly one of the
\* categories stocks and etfs, also when the universe names a symbol both
\* in the ETF list and in a stock list.
C27_OncePerTableOneCategory ==
    TablesMade =>
        /\ \A cat \in {"all", "stocks", "etfs"} :
              rankings[cat] # NoCategory =>
                  \A type \in RankingTypes : NoRepeat(TickersOf(rankings[cat][type]))
        /\ \A i \in 1..Len(aggregated.all) :
              LET in_stocks == InList(aggregated.all[i].ticker, TickersOf(aggregated.stocks))
                  in_etfs   == InList(aggregated.all[i].ticker, TickersOf(aggregated.etfs))
              IN  in_stocks # in_etfs

\* a call of process_ticker for the ticker of the last call, made at the
\* time later on the cache that call has left
CallAgain(later, fetched) ==
    ProcessTicker(call.after, call.ticker, later, fetched, 0, computed)

NoData == call.outcome = "nodata"

AbsenceStored == call.outcome = "stored" /\ IsNone(call.ret)

\* C30: a call of process_ticker whose fetch gives no data leaves the cache
\* as it was, and a next call for the ticker fetches again; a call whose
\* fetch gives data from which no stats can be computed stores None under
\* the time of the call, and every call for the ticker within the expiry
\* period returns None from the cache without fetching; a call that returns
\* None adds nothing to the stats main aggregates.
C30_FailureCachingAsymmetry ==
    /\ [](NoData =>
            /\ call.fetch
            /\ IsNone(call.ret)
            /\ call.after = call.before
            /\ \A later \in call.end..(call.end + ExpiryTicks + 1) :
                  \A fetched \in FetchResults : CallAgain(later, fetched).fetch)
    /\ [](AbsenceStored =>
            /\ call.fetch
            /\ call.after[call.ticker] = Entry(Iso(call.end), None)
            /\ \A later \in call.end..(call.end + ExpiryTicks - 1) :
                  \A fetched \in FetchResults :
                      /\ CallAgain(later, fetched).outcome = "hit"
                      /\ ~CallAgain(later, fetched).fetch
                      /\ IsNone(CallAgain(later, fetched).ret)
                      /\ CallAgain(later, fetched).cache = call.after)
    /\ [][(idx' = idx + 1 /\ IsNone(call'.ret)) => all_stats' = all_stats]_vars

\* C30, its case: the ticker is processed a second time in the run, after a
\* call that fetched data, computed no stats and stored None: the second
\* call returns None from the cache without fetching, and nothing of the
\* ticker is in the stats of the run
C30_Witness ==
    /\ call.outcome = "hit"
    /\ ~call.fetch
    /\ IsNone(call.ret)
    /\ call.before[call.ticker].k = "entry"
    /\ call.before[call.ticker].timestamp.k = "iso"
    /\ call.before[call.ticker].timestamp.t >= StartTime
    /\ IsNone(call.before[call.ticker].stats)
    /\ \A i \in 1..Len(all_stats) : all_stats[i].ticker # call.ticker

====
